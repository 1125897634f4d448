---------------------------- MODULE SqliteProofs ----------------------------
(***************************************************************************)
(* Theorems about the two parts of SQLite that are below the SQL: the file *)
(* that several processes share (SharedFile, for any number of processes)  *)
(* and the free pages of a database (FreePages, for a file, a cache and    *)
(* trunks of any size).  Both hold as long as none of the known lapses has *)
(* happened.                                                               *)
(*                                                                         *)
(* That the rows and the list of free pages survive is not inductive.      *)
(* FreePagesInv adds, of a transaction, that there are contents old (when  *)
(* it began) and mid (when the statement began) which have the rows and    *)
(* the list of those times, and that the journals, the file and the cache  *)
(* still have old and mid in every page that the B-tree needs then         *)
(* (TransKept, StmtKept); that a page whose record no header counts yet    *)
(* waits for that with its old contents in the file, unless the rollback   *)
(* of a statement has written it (WaitKept), which is why a rollback of    *)
(* the transaction does not need that record; and that a page which is     *)
(* free now and was in use then is exempt from dont_rollback (Flagged).    *)
(***************************************************************************)
EXTENDS SharedFile, FreePages, SequenceTheorems, FiniteSetTheorems, TLAPS

(***************************************************************************)
(* The file that processes share.                                          *)
(***************************************************************************)
\* Where a process has the file for itself.
Alone == {"open", "playback", "write", "finish", "drop"}

\* Who holds what, by the place where a process is.
Table ==
    /\ exclusive # Nobody => shared = {}
    /\ \A p \in Procs :
          /\ at[p] \in Alone <=> exclusive = p
          /\ at[p] \in {"read", "unpend", "xdrop", "xrange"} => pending = p
          /\ pagerState[p] = "reserved" /\ locktype[p] = "pending" => pending = p
          /\ at[p] \in {"unprobe", "write", "finish"} => reserved = p
          /\ pagerState[p] = "reserved" => reserved = p
          /\ reserved = p => \/ pagerState[p] = "reserved"
                             \/ at[p] \in {"unprobe", "write", "finish", "drop", "reread", "release"}

\* Pager.state, by the place.
StateAt ==
    \A p \in Procs :
        /\ at[p] \in Alone \cup {"reread"} => pagerState[p] = "exclusive"
        /\ at[p] \in {"pending", "read", "unpend"} => pagerState[p] = "unlock"
        /\ at[p] \in {"look", "probe", "unprobe", "hotdrop", "hotrange"} => pagerState[p] = "shared"
        /\ at[p] \in {"create", "xpending", "xdrop", "xrange"} => pagerState[p] = "reserved"

\* OsFile.locktype, by the place and Pager.state.
LockAt ==
    \A p \in Procs :
        /\ at[p] = "rest" => pagerState[p] # "exclusive" /\ locktype[p] # "exclusive"
        /\ pagerState[p] = "shared" => locktype[p] # "exclusive"
        /\ pagerState[p] = "unlock" => locktype[p] \in {"no", "shared"}
        /\ pagerState[p] = "unlock" /\ locktype[p] = "shared" => at[p] = "unpend" /\ p \in shared
        /\ pagerState[p] = "reserved" /\ at[p] # "release" => locktype[p] \in {"reserved", "pending"}
        /\ at[p] = "xrange" => locktype[p] = "pending"

\* The last commit is still to come.
Counted ==
    \A p \in Procs : pagerState[p] = "reserved" \/ at[p] \in {"write", "finish"} => version < MaxCommits

\* A process that reads nothing yet.
Quiet(p) ==
    \/ at[p] \in {"pending", "read", "unpend", "look", "probe", "unprobe", "hotdrop", "hotrange",
                  "open", "playback"}
    \/ at[p] = "rest" /\ pagerState[p] = "unlock"

\* A half written file has its journal and its writer, or the writer has ended
\* and nobody reads.
TornSafe ==
    torn => /\ journalFile = "full"
            /\ (\E p \in Procs : at[p] = "finish") \/ (\A p \in Procs : Quiet(p))

\* Who reads, or is about to, holds the lock that keeps writers away.
Fresh ==
    \A p \in Procs :
          /\ pagerState[p] \in {"shared", "reserved"} /\ at[p] # "hotrange" =>
                /\ seen[p] = version
                /\ p \in shared \/ (pagerState[p] = "reserved" /\ locktype[p] = "pending" /\ at[p] # "release")
          /\ at[p] = "release" => p \in shared /\ seen[p] = version
          /\ at[p] = "reread" => exclusive = Nobody

\* The last two parts need that nothing has gone wrong with the locks.
SharedFileInv == SharedFileTypeOK /\ Table /\ StateAt /\ LockAt /\ Counted /\ (lapses = {} => TornSafe /\ Fresh)

\* What one process may do.
Step(p) ==
    \/ TakePending(p) \/ MissPending(p) \/ TakeShared(p) \/ MissShared(p)
    \/ DropPending(p) \/ GiveUpShared(p)
    \/ GetFirst(p) \/ Look(p) \/ Probe(p) \/ ProbeFinds(p) \/ Unprobe(p)
    \/ DropShared(p) \/ HotRange(p) \/ MissHotRange(p)
    \/ OpenJournal(p) \/ MissJournal(p) \/ PlaybackHot(p)
    \/ BeginWriting(p) \/ CreateJournal(p) \/ WriteOut(p) \/ TakeRange(p) \/ MissRange(p)
    \/ WritePages(p) \/ Finish(p) \/ RollbackUnwritten(p)
    \/ DropRange(p) \/ RetakeShared(p) \/ UnlockBytes(p) \/ Reset(p)
    \/ ProcEnds(p)

USE SharedFileAssumption

-----------------------------------------------------------------------------
(* The two outcomes of pager_open_journal, and the end of a writer.        *)

\* The journal is new and open.
LEMMA JournalCreated ==
    ASSUME NEW p \in Procs, CreateJournal(p), opener = Nobody
    PROVE  /\ opener' = p /\ journalFile' = "empty"
           /\ at[p] = "create" /\ at' = [at EXCEPT ![p] = "rest"]
           /\ UNCHANGED <<table, locktype, pagerState, seen, version, torn, lapses, exits>>
  BY DEF CreateJournal, Goes

\* It is another's: all locks are given back.
LEMMA JournalRefused ==
    ASSUME NEW p \in Procs, CreateJournal(p), opener # Nobody
    PROVE  /\ UnlockAll(p)
           /\ at[p] = "create" /\ at' = [at EXCEPT ![p] = "rest"]
           /\ UNCHANGED <<opener, journalFile, seen, version, torn, lapses, exits>>
  BY DEF CreateJournal, Goes

\* While one process writes the file no other reads it.
LEMMA AloneQuiet ==
    ASSUME SharedFileTypeOK, Table, StateAt, LockAt, Fresh,
           NEW p \in Procs, at[p] = "finish", NEW q \in Procs, q # p
    PROVE  Quiet(q)
<1>1. exclusive = p /\ shared = {} /\ reserved = p /\ exclusive # q /\ reserved # q /\ exclusive # Nobody
  BY DEF Table, Alone, SharedFileTypeOK
<1>2. at[q] \notin {"open", "playback", "write", "finish", "drop"}
  BY <1>1 DEF Table, Alone
<1>3. at[q] # "release" /\ at[q] # "reread"
  BY <1>1 DEF Fresh
<1>4. pagerState[q] # "reserved"
  BY <1>1 DEF Table
<1>5. pagerState[q] = "shared" => at[q] = "hotrange"
  BY <1>1, <1>4 DEF Fresh
<1>6. at[q] \in Places /\ pagerState[q] \in {"unlock", "shared", "reserved", "exclusive"}
  BY DEF SharedFileTypeOK
<1>7. at[q] = "rest" => pagerState[q] # "exclusive"
  BY DEF LockAt
<1>8. at[q] \notin {"create", "xpending", "xdrop", "xrange"}
  BY <1>4 DEF StateAt
<1> QED BY <1>2, <1>3, <1>4, <1>5, <1>6, <1>7, <1>8 DEF Quiet, Places

\* The writer ends: the journal stays, and the others still have to look for it.
LEMMA ExitTorn ==
    ASSUME SharedFileTypeOK, Table, StateAt, LockAt, TornSafe, Fresh,
           NEW p \in Procs, ProcEnds(p)
    PROVE  TornSafe'
<1>1. /\ UNCHANGED <<torn, journalFile>>
      /\ at' = [at EXCEPT ![p] = "rest"]
      /\ pagerState' = [pagerState EXCEPT ![p] = "unlock"]
  BY DEF ProcEnds, UnlockAll, Goes
<1>2. CASE \E q \in Procs \ {p} : at[q] = "finish"
  <2>1. \E q \in Procs : at'[q] = "finish"
    BY <1>1, <1>2 DEF SharedFileTypeOK
  <2> QED BY <1>1, <2>1 DEF TornSafe
<1>3. CASE ~torn
  BY <1>1, <1>3 DEF TornSafe
<1>4. CASE torn /\ \A q \in Procs \ {p} : at[q] # "finish"
  <2>1. journalFile = "full"
    BY <1>4 DEF TornSafe
  <2>2. \A q \in Procs \ {p} : Quiet(q)
    BY <1>4, AloneQuiet DEF TornSafe
  <2>3. \A q \in Procs : Quiet(q)'
    BY <1>1, <2>2 DEF Quiet, SharedFileTypeOK
  <2> QED BY <1>1, <2>1, <2>3 DEF TornSafe
<1> QED BY <1>2, <1>3, <1>4

-----------------------------------------------------------------------------
(* Every part of the invariant, step by step.                              *)

\* Every step preserves the types: a commit still fits the bound.
LEMMA TypeStep ==
    ASSUME SharedFileTypeOK, StateAt, LockAt, Counted,
           NEW p \in Procs, Step(p)
    PROVE  SharedFileTypeOK'
<1> USE DEF Goes, SharedFileTypeOK, Places
<1>1. CASE TakePending(p)
  BY <1>1 DEF TakePending, content
<1>2. CASE MissPending(p)
  BY <1>2 DEF MissPending, table, content, StateAt, Alone, LockAt
<1>3. CASE TakeShared(p)
  BY <1>3 DEF TakeShared, content
<1>4. CASE MissShared(p)
  BY <1>4 DEF MissShared, table, content
<1>5. CASE DropPending(p)
  BY <1>5 DEF DropPending, content
<1>6. CASE GiveUpShared(p)
  BY <1>6 DEF GiveUpShared, content, StateAt, Alone, LockAt
<1>7. CASE GetFirst(p)
  BY <1>7 DEF GetFirst, table, content
<1>8. CASE Look(p)
  BY <1>8 DEF Look, table, content, StateAt, Alone, LockAt
<1>9. CASE Probe(p)
  BY <1>9 DEF Probe, content
<1>10. CASE ProbeFinds(p)
  BY <1>10 DEF ProbeFinds, table, content, StateAt, Alone, LockAt
<1>11. CASE Unprobe(p)
  BY <1>11 DEF Unprobe, content
<1>12. CASE DropShared(p)
  BY <1>12 DEF DropShared, content
<1>13. CASE HotRange(p)
  BY <1>13 DEF HotRange, Overtakes, RangeFree, content
<1>14. CASE MissHotRange(p)
  BY <1>14 DEF MissHotRange, UnlockAll, Freed, RangeFree, content
<1>15. CASE OpenJournal(p)
  BY <1>15 DEF OpenJournal, table
<1>16. CASE MissJournal(p)
  BY <1>16 DEF MissJournal, UnlockAll, Freed, content
<1>17. CASE PlaybackHot(p)
  BY <1>17 DEF PlaybackHot, CloseJournal, table
<1>18. CASE BeginWriting(p)
  BY <1>18 DEF BeginWriting, content
<1>19. CASE CreateJournal(p)
  <2>1. CASE opener = Nobody
    <3>1. /\ opener' = p /\ journalFile' = "empty"
          /\ at[p] = "create" /\ at' = [at EXCEPT ![p] = "rest"]
          /\ UNCHANGED <<table, locktype, pagerState, seen, version, torn, lapses, exits>>
      BY <1>19, <2>1, JournalCreated
    <3>2. /\ opener' \in Procs \cup {Nobody} /\ journalFile' \in {"none", "empty", "full"}
          /\ at' \in [Procs -> Places]
      BY <3>1
    <3>3. pagerState[p] # "exclusive" /\ locktype[p] # "exclusive"
      BY <3>1 DEF StateAt, LockAt
    <3>4. \A q \in Procs : at'[q] = "rest"
                         => pagerState'[q] # "exclusive" /\ locktype'[q] # "exclusive"
      BY <3>1, <3>3
    <3>5. UNCHANGED <<pending, reserved, exclusive, shared, locktype, pagerState, seen,
                      version, torn, lapses, exits>>
      BY <3>1 DEF table
    <3>6. /\ {pending', reserved', exclusive', opener'} \subseteq Procs \cup {Nobody}
          /\ shared' \subseteq Procs
      BY <3>2, <3>5
    <3>7. /\ locktype' \in [Procs -> {"no", "shared", "reserved", "pending", "exclusive"}]
          /\ pagerState' \in [Procs -> {"unlock", "shared", "reserved", "exclusive"}]
          /\ seen' \in [Procs -> 0..MaxCommits] /\ version' \in 0..MaxCommits
          /\ torn' \in BOOLEAN /\ exits' \in 0..MaxExits
          /\ lapses' \subseteq {"lock lost", "probe met probe", "overtaken"}
      BY <3>5
    <3> QED BY <3>2, <3>4, <3>6, <3>7
  <2>2. CASE opener # Nobody
    <3>1. /\ UnlockAll(p)
          /\ at[p] = "create" /\ at' = [at EXCEPT ![p] = "rest"]
          /\ UNCHANGED <<opener, journalFile, seen, version, torn, lapses, exits>>
      BY <1>19, <2>2, JournalRefused
    <3> QED BY <3>1 DEF UnlockAll, Freed
  <2> QED BY <2>1, <2>2
<1>20. CASE WriteOut(p)
  BY <1>20 DEF WriteOut, table, content
<1>21. CASE TakeRange(p)
  BY <1>21 DEF TakeRange, Overtakes, RangeFree, content
<1>22. CASE MissRange(p)
  BY <1>22 DEF MissRange, RangeFree, table, content, StateAt, Alone, LockAt
<1>23. CASE WritePages(p)
  BY <1>23 DEF WritePages, table
<1>24. CASE Finish(p)
  <2>1. version < MaxCommits
    BY <1>24 DEF Counted, Finish
  <2>2. version' = version \/ version' = version + 1
    BY <1>24 DEF Finish
  <2>3. version \in 0..MaxCommits
    OBVIOUS
  <2>4. version' \in 0..MaxCommits
    <3> HIDE DEF SharedFileTypeOK
    <3> QED BY <2>1, <2>2, <2>3
  <2>5. at' \in [Procs -> Places] /\ \A q \in Procs : at'[q] = "rest" => at[q] = "rest"
    BY <1>24 DEF Finish
  <2>6. /\ journalFile' = "none" /\ opener' = Nobody /\ torn' = FALSE
        /\ UNCHANGED <<pending, reserved, exclusive, shared, locktype, pagerState, seen, lapses, exits>>
    BY <1>24 DEF Finish, CloseJournal, table
  <2> QED BY <2>4, <2>5, <2>6
<1>25. CASE RollbackUnwritten(p)
  BY <1>25 DEF RollbackUnwritten, CloseJournal, table
<1>26. CASE DropRange(p)
  BY <1>26 DEF DropRange, content
<1>27. CASE RetakeShared(p)
  BY <1>27 DEF RetakeShared, content
<1>28. CASE UnlockBytes(p)
  BY <1>28 DEF UnlockBytes, Freed, content
<1>29. CASE Reset(p)
  BY <1>29 DEF Reset, UnlockAll, Freed, content
<1>30. CASE ProcEnds(p)
  <2>1. exits < MaxExits /\ exits' = exits + 1 /\ exits \in 0..MaxExits
    BY <1>30 DEF ProcEnds
  <2>2. exits' \in 0..MaxExits
    <3> HIDE DEF SharedFileTypeOK
    <3> QED BY <2>1
  <2>3. {pending', reserved', exclusive', opener'} \subseteq Procs \cup {Nobody} /\ shared' \subseteq Procs
    BY <1>30 DEF ProcEnds, UnlockAll, Freed
  <2>4. /\ at' \in [Procs -> Places]
        /\ pagerState' \in [Procs -> {"unlock", "shared", "reserved", "exclusive"}]
        /\ locktype' \in [Procs -> {"no", "shared", "reserved", "pending", "exclusive"}]
    BY <1>30 DEF ProcEnds, UnlockAll
  <2>5. \A q \in Procs : at'[q] = "rest" => pagerState'[q] # "exclusive" /\ locktype'[q] # "exclusive"
    BY <1>30 DEF ProcEnds, UnlockAll
  <2> QED BY <1>30, <2>2, <2>3, <2>4, <2>5 DEF ProcEnds
<1> QED
  BY <1>1, <1>2, <1>3, <1>4, <1>5, <1>6, <1>7, <1>8, <1>9, <1>10, <1>11, <1>12, <1>13,
     <1>14, <1>15, <1>16, <1>17, <1>18, <1>19, <1>20, <1>21, <1>22, <1>23, <1>24, <1>25,
     <1>26, <1>27, <1>28, <1>29, <1>30 DEF Step

\* Every step leaves each locked byte with the process whose place says so.
LEMMA TableStep ==
    ASSUME SharedFileTypeOK, Table, StateAt, LockAt,
           NEW p \in Procs, Step(p)
    PROVE  Table'
<1> USE DEF Goes, SharedFileTypeOK, Table, Alone
<1>1. CASE TakePending(p)
  BY <1>1 DEF TakePending, content
<1>2. CASE MissPending(p)
  BY <1>2 DEF MissPending, table, content
<1>3. CASE TakeShared(p)
  BY <1>3 DEF TakeShared, content
<1>4. CASE MissShared(p)
  BY <1>4 DEF MissShared, table, content
<1>5. CASE DropPending(p)
  BY <1>5 DEF DropPending, content, StateAt
<1>6. CASE GiveUpShared(p)
  BY <1>6 DEF GiveUpShared, content, StateAt
<1>7. CASE GetFirst(p)
  BY <1>7 DEF GetFirst, table, content
<1>8. CASE Look(p)
  BY <1>8 DEF Look, table, content
<1>9. CASE Probe(p)
  BY <1>9 DEF Probe, content
<1>10. CASE ProbeFinds(p)
  BY <1>10 DEF ProbeFinds, table, content
<1>11. CASE Unprobe(p)
  BY <1>11 DEF Unprobe, content, StateAt
<1>12. CASE DropShared(p)
  BY <1>12 DEF DropShared, content, StateAt
<1>13. CASE HotRange(p)
  BY <1>13 DEF HotRange, Overtakes, RangeFree, content, StateAt
<1>14. CASE MissHotRange(p)
  BY <1>14 DEF MissHotRange, UnlockAll, Freed, RangeFree, content
<1>15. CASE OpenJournal(p)
  BY <1>15 DEF OpenJournal, table
<1>16. CASE MissJournal(p)
  BY <1>16 DEF MissJournal, UnlockAll, Freed, content
<1>17. CASE PlaybackHot(p)
  BY <1>17 DEF PlaybackHot, CloseJournal, table
<1>18. CASE BeginWriting(p)
  BY <1>18 DEF BeginWriting, content
<1>19. CASE CreateJournal(p)
  <2>1. CASE opener = Nobody
    <3>1. /\ opener' = p /\ journalFile' = "empty"
          /\ at[p] = "create" /\ at' = [at EXCEPT ![p] = "rest"]
          /\ UNCHANGED <<table, locktype, pagerState, seen, version, torn, lapses, exits>>
      BY <1>19, <2>1, JournalCreated
    <3> QED BY <3>1 DEF table
  <2>2. CASE opener # Nobody
    <3>1. /\ UnlockAll(p)
          /\ at[p] = "create" /\ at' = [at EXCEPT ![p] = "rest"]
          /\ UNCHANGED <<opener, journalFile, seen, version, torn, lapses, exits>>
      BY <1>19, <2>2, JournalRefused
    <3> QED BY <3>1 DEF UnlockAll, Freed
  <2> QED BY <2>1, <2>2
<1>20. CASE WriteOut(p)
  BY <1>20 DEF WriteOut, table, content, LockAt
<1>21. CASE TakeRange(p)
  BY <1>21 DEF TakeRange, Overtakes, RangeFree, content, StateAt
<1>22. CASE MissRange(p)
  BY <1>22 DEF MissRange, RangeFree, table, content
<1>23. CASE WritePages(p)
  BY <1>23 DEF WritePages, table
<1>24. CASE Finish(p)
  BY <1>24 DEF Finish, CloseJournal, table
<1>25. CASE RollbackUnwritten(p)
  BY <1>25 DEF RollbackUnwritten, CloseJournal, table
<1>26. CASE DropRange(p)
  BY <1>26 DEF DropRange, content
<1>27. CASE RetakeShared(p)
  BY <1>27 DEF RetakeShared, content
<1>28. CASE UnlockBytes(p)
  BY <1>28 DEF UnlockBytes, Freed, content
<1>29. CASE Reset(p)
  BY <1>29 DEF Reset, UnlockAll, Freed, content
<1>30. CASE ProcEnds(p)
  BY <1>30 DEF ProcEnds, UnlockAll, Freed
<1> QED
  BY <1>1, <1>2, <1>3, <1>4, <1>5, <1>6, <1>7, <1>8, <1>9, <1>10, <1>11, <1>12, <1>13,
     <1>14, <1>15, <1>16, <1>17, <1>18, <1>19, <1>20, <1>21, <1>22, <1>23, <1>24, <1>25,
     <1>26, <1>27, <1>28, <1>29, <1>30 DEF Step

\* Every step keeps Pager.state what the place says.
LEMMA StateStep ==
    ASSUME SharedFileTypeOK, StateAt,
           NEW p \in Procs, Step(p)
    PROVE  StateAt'
<1> USE DEF Goes, SharedFileTypeOK, StateAt, Alone
<1>1. CASE TakePending(p)
  BY <1>1 DEF TakePending, content
<1>2. CASE MissPending(p)
  BY <1>2 DEF MissPending, table, content
<1>3. CASE TakeShared(p)
  BY <1>3 DEF TakeShared, content
<1>4. CASE MissShared(p)
  BY <1>4 DEF MissShared, table, content
<1>5. CASE DropPending(p)
  BY <1>5 DEF DropPending, content
<1>6. CASE GiveUpShared(p)
  BY <1>6 DEF GiveUpShared, content
<1>7. CASE GetFirst(p)
  BY <1>7 DEF GetFirst, table, content
<1>8. CASE Look(p)
  BY <1>8 DEF Look, table, content
<1>9. CASE Probe(p)
  BY <1>9 DEF Probe, content
<1>10. CASE ProbeFinds(p)
  BY <1>10 DEF ProbeFinds, table, content
<1>11. CASE Unprobe(p)
  BY <1>11 DEF Unprobe, content
<1>12. CASE DropShared(p)
  BY <1>12 DEF DropShared, content
<1>13. CASE HotRange(p)
  BY <1>13 DEF HotRange, Overtakes, RangeFree, content
<1>14. CASE MissHotRange(p)
  BY <1>14 DEF MissHotRange, UnlockAll, Freed, RangeFree, content
<1>15. CASE OpenJournal(p)
  BY <1>15 DEF OpenJournal, table
<1>16. CASE MissJournal(p)
  BY <1>16 DEF MissJournal, UnlockAll, Freed, content
<1>17. CASE PlaybackHot(p)
  BY <1>17 DEF PlaybackHot, CloseJournal, table
<1>18. CASE BeginWriting(p)
  BY <1>18 DEF BeginWriting, content
<1>19. CASE CreateJournal(p)
  BY <1>19 DEF CreateJournal, UnlockAll, Freed, table
<1>20. CASE WriteOut(p)
  BY <1>20 DEF WriteOut, table, content
<1>21. CASE TakeRange(p)
  BY <1>21 DEF TakeRange, Overtakes, RangeFree, content
<1>22. CASE MissRange(p)
  BY <1>22 DEF MissRange, RangeFree, table, content
<1>23. CASE WritePages(p)
  BY <1>23 DEF WritePages, table
<1>24. CASE Finish(p)
  BY <1>24 DEF Finish, CloseJournal, table
<1>25. CASE RollbackUnwritten(p)
  BY <1>25 DEF RollbackUnwritten, CloseJournal, table
<1>26. CASE DropRange(p)
  BY <1>26 DEF DropRange, content
<1>27. CASE RetakeShared(p)
  BY <1>27 DEF RetakeShared, content
<1>28. CASE UnlockBytes(p)
  BY <1>28 DEF UnlockBytes, Freed, content
<1>29. CASE Reset(p)
  BY <1>29 DEF Reset, UnlockAll, Freed, content
<1>30. CASE ProcEnds(p)
  BY <1>30 DEF ProcEnds, UnlockAll, Freed
<1> QED
  BY <1>1, <1>2, <1>3, <1>4, <1>5, <1>6, <1>7, <1>8, <1>9, <1>10, <1>11, <1>12, <1>13,
     <1>14, <1>15, <1>16, <1>17, <1>18, <1>19, <1>20, <1>21, <1>22, <1>23, <1>24, <1>25,
     <1>26, <1>27, <1>28, <1>29, <1>30 DEF Step

\* Every step keeps OsFile.locktype what the place and Pager.state say.
LEMMA LockStep ==
    ASSUME SharedFileTypeOK, StateAt, LockAt,
           NEW p \in Procs, Step(p)
    PROVE  LockAt'
<1> USE DEF Goes, SharedFileTypeOK, LockAt
<1>1. CASE TakePending(p)
  BY <1>1 DEF TakePending, content
<1>2. CASE MissPending(p)
  BY <1>2 DEF MissPending, table, content, StateAt, Alone
<1>3. CASE TakeShared(p)
  BY <1>3 DEF TakeShared, content, StateAt, Alone
<1>4. CASE MissShared(p)
  BY <1>4 DEF MissShared, table, content
<1>5. CASE DropPending(p)
  BY <1>5 DEF DropPending, content
<1>6. CASE GiveUpShared(p)
  BY <1>6 DEF GiveUpShared, content, StateAt, Alone
<1>7. CASE GetFirst(p)
  BY <1>7 DEF GetFirst, table, content
<1>8. CASE Look(p)
  BY <1>8 DEF Look, table, content, StateAt, Alone
<1>9. CASE Probe(p)
  BY <1>9 DEF Probe, content
<1>10. CASE ProbeFinds(p)
  BY <1>10 DEF ProbeFinds, table, content, StateAt, Alone
<1>11. CASE Unprobe(p)
  BY <1>11 DEF Unprobe, content
<1>12. CASE DropShared(p)
  BY <1>12 DEF DropShared, content, StateAt, Alone
<1>13. CASE HotRange(p)
  BY <1>13 DEF HotRange, Overtakes, RangeFree, content
<1>14. CASE MissHotRange(p)
  BY <1>14 DEF MissHotRange, UnlockAll, Freed, RangeFree, content
<1>15. CASE OpenJournal(p)
  BY <1>15 DEF OpenJournal, table
<1>16. CASE MissJournal(p)
  BY <1>16 DEF MissJournal, UnlockAll, Freed, content
<1>17. CASE PlaybackHot(p)
  BY <1>17 DEF PlaybackHot, CloseJournal, table
<1>18. CASE BeginWriting(p)
  BY <1>18 DEF BeginWriting, content
<1>19. CASE CreateJournal(p)
  <2>1. CASE opener = Nobody
    <3>1. /\ opener' = p /\ journalFile' = "empty"
          /\ at[p] = "create" /\ at' = [at EXCEPT ![p] = "rest"]
          /\ UNCHANGED <<table, locktype, pagerState, seen, version, torn, lapses, exits>>
      BY <1>19, <2>1, JournalCreated
    <3> QED BY <3>1 DEF table, StateAt
  <2>2. CASE opener # Nobody
    <3>1. /\ UnlockAll(p)
          /\ at[p] = "create" /\ at' = [at EXCEPT ![p] = "rest"]
          /\ UNCHANGED <<opener, journalFile, seen, version, torn, lapses, exits>>
      BY <1>19, <2>2, JournalRefused
    <3> QED BY <3>1 DEF UnlockAll, Freed
  <2> QED BY <2>1, <2>2
<1>20. CASE WriteOut(p)
  BY <1>20 DEF WriteOut, table, content
<1>21. CASE TakeRange(p)
  BY <1>21 DEF TakeRange, Overtakes, RangeFree, content
<1>22. CASE MissRange(p)
  BY <1>22 DEF MissRange, RangeFree, table, content, StateAt, Alone
<1>23. CASE WritePages(p)
  BY <1>23 DEF WritePages, table
<1>24. CASE Finish(p)
  BY <1>24 DEF Finish, CloseJournal, table
<1>25. CASE RollbackUnwritten(p)
  BY <1>25 DEF RollbackUnwritten, CloseJournal, table
<1>26. CASE DropRange(p)
  BY <1>26 DEF DropRange, content
<1>27. CASE RetakeShared(p)
  BY <1>27 DEF RetakeShared, content
<1>28. CASE UnlockBytes(p)
  BY <1>28 DEF UnlockBytes, Freed, content
<1>29. CASE Reset(p)
  BY <1>29 DEF Reset, UnlockAll, Freed, content
<1>30. CASE ProcEnds(p)
  BY <1>30 DEF ProcEnds, UnlockAll, Freed
<1> QED
  BY <1>1, <1>2, <1>3, <1>4, <1>5, <1>6, <1>7, <1>8, <1>9, <1>10, <1>11, <1>12, <1>13,
     <1>14, <1>15, <1>16, <1>17, <1>18, <1>19, <1>20, <1>21, <1>22, <1>23, <1>24, <1>25,
     <1>26, <1>27, <1>28, <1>29, <1>30 DEF Step

\* Whoever may commit finds room for one more version.
LEMMA CountStep ==
    ASSUME SharedFileTypeOK, Table, StateAt, Counted,
           NEW p \in Procs, Step(p)
    PROVE  Counted'
<1> USE DEF Goes, SharedFileTypeOK, Counted
<1>1. CASE TakePending(p)
  BY <1>1 DEF TakePending, content
<1>2. CASE MissPending(p)
  BY <1>2 DEF MissPending, table, content
<1>3. CASE TakeShared(p)
  BY <1>3 DEF TakeShared, content
<1>4. CASE MissShared(p)
  BY <1>4 DEF MissShared, table, content
<1>5. CASE DropPending(p)
  BY <1>5 DEF DropPending, content
<1>6. CASE GiveUpShared(p)
  BY <1>6 DEF GiveUpShared, content
<1>7. CASE GetFirst(p)
  BY <1>7 DEF GetFirst, table, content
<1>8. CASE Look(p)
  BY <1>8 DEF Look, table, content
<1>9. CASE Probe(p)
  BY <1>9 DEF Probe, content
<1>10. CASE ProbeFinds(p)
  BY <1>10 DEF ProbeFinds, table, content
<1>11. CASE Unprobe(p)
  BY <1>11 DEF Unprobe, content
<1>12. CASE DropShared(p)
  BY <1>12 DEF DropShared, content
<1>13. CASE HotRange(p)
  BY <1>13 DEF HotRange, Overtakes, RangeFree, content
<1>14. CASE MissHotRange(p)
  BY <1>14 DEF MissHotRange, UnlockAll, Freed, RangeFree, content
<1>15. CASE OpenJournal(p)
  BY <1>15 DEF OpenJournal, table
<1>16. CASE MissJournal(p)
  BY <1>16 DEF MissJournal, UnlockAll, Freed, content
<1>17. CASE PlaybackHot(p)
  BY <1>17 DEF PlaybackHot, CloseJournal, table
<1>18. CASE BeginWriting(p)
  BY <1>18 DEF BeginWriting, content
<1>19. CASE CreateJournal(p)
  BY <1>19 DEF CreateJournal, UnlockAll, Freed, table
<1>20. CASE WriteOut(p)
  BY <1>20 DEF WriteOut, table, content
<1>21. CASE TakeRange(p)
  BY <1>21 DEF TakeRange, Overtakes, RangeFree, content, StateAt, Alone
<1>22. CASE MissRange(p)
  BY <1>22 DEF MissRange, RangeFree, table, content
<1>23. CASE WritePages(p)
  BY <1>23 DEF WritePages, table
<1>24. CASE Finish(p)
  BY <1>24 DEF Finish, CloseJournal, table, Table, Alone, StateAt
<1>25. CASE RollbackUnwritten(p)
  BY <1>25 DEF RollbackUnwritten, CloseJournal, table
<1>26. CASE DropRange(p)
  BY <1>26 DEF DropRange, content
<1>27. CASE RetakeShared(p)
  BY <1>27 DEF RetakeShared, content
<1>28. CASE UnlockBytes(p)
  BY <1>28 DEF UnlockBytes, Freed, content
<1>29. CASE Reset(p)
  BY <1>29 DEF Reset, UnlockAll, Freed, content
<1>30. CASE ProcEnds(p)
  BY <1>30 DEF ProcEnds, UnlockAll, Freed
<1> QED
  BY <1>1, <1>2, <1>3, <1>4, <1>5, <1>6, <1>7, <1>8, <1>9, <1>10, <1>11, <1>12, <1>13,
     <1>14, <1>15, <1>16, <1>17, <1>18, <1>19, <1>20, <1>21, <1>22, <1>23, <1>24, <1>25,
     <1>26, <1>27, <1>28, <1>29, <1>30 DEF Step

\* While the file is half written its writer is at it, or nobody reads.
LEMMA TornStep ==
    ASSUME SharedFileTypeOK, Table, StateAt, LockAt, TornSafe, Fresh,
           lapses = {}, lapses' = {},
           NEW p \in Procs, Step(p)
    PROVE  TornSafe'
<1> USE DEF Goes, SharedFileTypeOK, TornSafe, Quiet
<1>1. CASE TakePending(p)
  BY <1>1 DEF TakePending, content
<1>2. CASE MissPending(p)
  BY <1>2 DEF MissPending, table, content, StateAt, Alone
<1>3. CASE TakeShared(p)
  BY <1>3 DEF TakeShared, content
<1>4. CASE MissShared(p)
  BY <1>4 DEF MissShared, table, content
<1>5. CASE DropPending(p)
  BY <1>5 DEF DropPending, content
<1>6. CASE GiveUpShared(p)
  BY <1>6 DEF GiveUpShared, content, StateAt, Alone
<1>7. CASE GetFirst(p)
  BY <1>7 DEF GetFirst, table, content
<1>8. CASE Look(p)
  BY <1>8 DEF Look, table, content
<1>9. CASE Probe(p)
  BY <1>9 DEF Probe, content
<1>10. CASE ProbeFinds(p)
  BY <1>10 DEF ProbeFinds, table, content, Table, Alone, StateAt
<1>11. CASE Unprobe(p)
  BY <1>11 DEF Unprobe, content
<1>12. CASE DropShared(p)
  BY <1>12 DEF DropShared, content
<1>13. CASE HotRange(p)
  BY <1>13 DEF HotRange, Overtakes, RangeFree, content
<1>14. CASE MissHotRange(p)
  BY <1>14 DEF MissHotRange, UnlockAll, Freed, RangeFree, content
<1>15. CASE OpenJournal(p)
  BY <1>15 DEF OpenJournal, table
<1>16. CASE MissJournal(p)
  BY <1>16 DEF MissJournal, UnlockAll, Freed, content
<1>17. CASE PlaybackHot(p)
  BY <1>17 DEF PlaybackHot, CloseJournal, table
<1>18. CASE BeginWriting(p)
  BY <1>18 DEF BeginWriting, content
<1>19. CASE CreateJournal(p)
  BY <1>19 DEF CreateJournal, UnlockAll, Freed, table, Table, Alone, StateAt
<1>20. CASE WriteOut(p)
  BY <1>20 DEF WriteOut, table, content
<1>21. CASE TakeRange(p)
  BY <1>21 DEF TakeRange, Overtakes, RangeFree, content
<1>22. CASE MissRange(p)
  BY <1>22 DEF MissRange, RangeFree, table, content
<1>23. CASE WritePages(p)
  BY <1>23 DEF WritePages, table
<1>24. CASE Finish(p)
  BY <1>24 DEF Finish, CloseJournal, table
<1>25. CASE RollbackUnwritten(p)
  BY <1>25 DEF RollbackUnwritten, CloseJournal, table, Table, Alone
<1>26. CASE DropRange(p)
  BY <1>26 DEF DropRange, content
<1>27. CASE RetakeShared(p)
  BY <1>27 DEF RetakeShared, content
<1>28. CASE UnlockBytes(p)
  BY <1>28 DEF UnlockBytes, Freed, content
<1>29. CASE Reset(p)
  BY <1>29 DEF Reset, UnlockAll, Freed, content
<1>30. CASE ProcEnds(p)
  BY <1>30, ExitTorn
<1> QED
  BY <1>1, <1>2, <1>3, <1>4, <1>5, <1>6, <1>7, <1>8, <1>9, <1>10, <1>11, <1>12, <1>13,
     <1>14, <1>15, <1>16, <1>17, <1>18, <1>19, <1>20, <1>21, <1>22, <1>23, <1>24, <1>25,
     <1>26, <1>27, <1>28, <1>29, <1>30 DEF Step

\* Whoever reads holds a lock and has seen the version in the file.
LEMMA FreshStep ==
    ASSUME SharedFileTypeOK, Table, StateAt, LockAt, Fresh,
           lapses = {}, lapses' = {},
           NEW p \in Procs, Step(p)
    PROVE  Fresh'
<1> USE DEF Goes, SharedFileTypeOK, Fresh
<1>1. CASE TakePending(p)
  BY <1>1 DEF TakePending, content
<1>2. CASE MissPending(p)
  BY <1>2 DEF MissPending, table, content
<1>3. CASE TakeShared(p)
  BY <1>3 DEF TakeShared, content
<1>4. CASE MissShared(p)
  BY <1>4 DEF MissShared, table, content
<1>5. CASE DropPending(p)
  BY <1>5 DEF DropPending, content, Table, Alone, StateAt, LockAt
<1>6. CASE GiveUpShared(p)
  BY <1>6 DEF GiveUpShared, content
<1>7. CASE GetFirst(p)
  BY <1>7 DEF GetFirst, table, content
<1>8. CASE Look(p)
  BY <1>8 DEF Look, table, content
<1>9. CASE Probe(p)
  BY <1>9 DEF Probe, content
<1>10. CASE ProbeFinds(p)
  BY <1>10 DEF ProbeFinds, table, content
<1>11. CASE Unprobe(p)
  BY <1>11 DEF Unprobe, content
<1>12. CASE DropShared(p)
  BY <1>12 DEF DropShared, content, StateAt, Alone
<1>13. CASE HotRange(p)
  BY <1>13 DEF HotRange, Overtakes, RangeFree, content
<1>14. CASE MissHotRange(p)
  BY <1>14 DEF MissHotRange, UnlockAll, Freed, RangeFree, content
<1>15. CASE OpenJournal(p)
  BY <1>15 DEF OpenJournal, table
<1>16. CASE MissJournal(p)
  BY <1>16 DEF MissJournal, UnlockAll, Freed, content
<1>17. CASE PlaybackHot(p)
  BY <1>17 DEF PlaybackHot, CloseJournal, table
<1>18. CASE BeginWriting(p)
  BY <1>18 DEF BeginWriting, content
<1>19. CASE CreateJournal(p)
  BY <1>19 DEF CreateJournal, UnlockAll, Freed, table
<1>20. CASE WriteOut(p)
  BY <1>20 DEF WriteOut, table, content
<1>21. CASE TakeRange(p)
  BY <1>21 DEF TakeRange, Overtakes, RangeFree, content
<1>22. CASE MissRange(p)
  BY <1>22 DEF MissRange, RangeFree, table, content
<1>23. CASE WritePages(p)
  BY <1>23 DEF WritePages, table
<1>24. CASE Finish(p)
  BY <1>24 DEF Finish, CloseJournal, table, Table, Alone, StateAt
<1>25. CASE RollbackUnwritten(p)
  BY <1>25 DEF RollbackUnwritten, CloseJournal, table
<1>26. CASE DropRange(p)
  BY <1>26 DEF DropRange, content
<1>27. CASE RetakeShared(p)
  BY <1>27 DEF RetakeShared, content
<1>28. CASE UnlockBytes(p)
  BY <1>28 DEF UnlockBytes, Freed, content
<1>29. CASE Reset(p)
  BY <1>29 DEF Reset, UnlockAll, Freed, content
<1>30. CASE ProcEnds(p)
  BY <1>30 DEF ProcEnds, UnlockAll, Freed
<1> QED
  BY <1>1, <1>2, <1>3, <1>4, <1>5, <1>6, <1>7, <1>8, <1>9, <1>10, <1>11, <1>12, <1>13,
     <1>14, <1>15, <1>16, <1>17, <1>18, <1>19, <1>20, <1>21, <1>22, <1>23, <1>24, <1>25,
     <1>26, <1>27, <1>28, <1>29, <1>30 DEF Step

\* What went wrong stays on record.
LEMMA LapsesStay ==
    ASSUME NEW p \in Procs, Step(p), lapses' = {}
    PROVE  lapses = {}
  BY DEF Step, TakePending, MissPending, TakeShared, MissShared, DropPending, GiveUpShared,
         GetFirst, Look, Probe, ProbeFinds, Unprobe, DropShared, HotRange, MissHotRange,
         OpenJournal, MissJournal, PlaybackHot, BeginWriting, CreateJournal, WriteOut,
         TakeRange, MissRange, WritePages, Finish, RollbackUnwritten, DropRange,
         RetakeShared, UnlockBytes, Reset, ProcEnds, Overtakes

-----------------------------------------------------------------------------
\* The invariant holds at the start,
LEMMA SharedFileStarts == SharedFileInit => SharedFileInv
<1> SUFFICES ASSUME SharedFileInit PROVE SharedFileInv
  OBVIOUS
<1> USE DEF SharedFileInit
<1>1. SharedFileTypeOK
  <2>1. 0 \in 0..MaxCommits /\ 0 \in 0..MaxExits
    OBVIOUS
  <2>2. /\ at \in [Procs -> Places]
        /\ pagerState \in [Procs -> {"unlock", "shared", "reserved", "exclusive"}]
        /\ locktype \in [Procs -> {"no", "shared", "reserved", "pending", "exclusive"}]
        /\ seen \in [Procs -> 0..MaxCommits]
    BY <2>1 DEF Places
  <2> QED BY <2>1, <2>2 DEF SharedFileTypeOK
<1>2. Table /\ StateAt /\ LockAt /\ Counted
  BY DEF Table, StateAt, LockAt, Counted, Alone
<1>3. TornSafe /\ Fresh
  BY DEF TornSafe, Fresh
<1> QED BY <1>1, <1>2, <1>3 DEF SharedFileInv

\* ... and every step preserves it.
LEMMA SharedFileKeeps == SharedFileInv /\ [SharedFileNext]_sharedFileVars => SharedFileInv'
<1> SUFFICES ASSUME SharedFileInv, [SharedFileNext]_sharedFileVars PROVE SharedFileInv'
  OBVIOUS
<1>1. CASE SharedFileNext
  <2>1. PICK p \in Procs : Step(p)
    BY <1>1 DEF SharedFileNext, Step
  <2>2. SharedFileTypeOK' /\ Table' /\ StateAt' /\ LockAt' /\ Counted'
    BY <2>1, TypeStep, TableStep, StateStep, LockStep, CountStep DEF SharedFileInv
  <2>3. ASSUME lapses' = {} PROVE TornSafe' /\ Fresh'
    <3>1. lapses = {}
      BY <2>1, <2>3, LapsesStay
    <3> QED BY <2>1, <2>3, <3>1, TornStep, FreshStep DEF SharedFileInv
  <2> QED BY <2>2, <2>3 DEF SharedFileInv
<1>2. CASE UNCHANGED sharedFileVars
  <2> USE <1>2 DEF sharedFileVars, table, content
  <2>1. SharedFileTypeOK' = SharedFileTypeOK
    BY DEF SharedFileTypeOK
  <2>2. Table' = Table /\ StateAt' = StateAt /\ LockAt' = LockAt /\ Counted' = Counted
    BY DEF Table, StateAt, LockAt, Counted
  <2>3. TornSafe' = TornSafe /\ Fresh' = Fresh
    BY DEF TornSafe, Fresh, Quiet
  <2> QED BY <2>1, <2>2, <2>3 DEF SharedFileInv
<1> QED BY <1>1, <1>2

LEMMA SharedFileInvariant == SharedFileSpec => []SharedFileInv
<1>1. SharedFileInit => SharedFileInv BY SharedFileStarts
<1>2. SharedFileInv /\ [SharedFileNext]_sharedFileVars => SharedFileInv' BY SharedFileKeeps
<1> QED BY <1>1, <1>2, PTL DEF SharedFileSpec

\* The locks, Pager.state and OsFile.locktype have only the values the code
\* gives them, and a process at rest never keeps an exclusive lock.
THEOREM SharedFileTypeCorrect == SharedFileSpec => []SharedFileTypeOK
<1>1. SharedFileInv => SharedFileTypeOK BY DEF SharedFileInv
<1> QED BY <1>1, SharedFileInvariant, PTL

\* Before the first lapse, nobody who reads meets a half written file or a
\* version other than the one in which the read began.
THEOREM IsolatedAlways == SharedFileSpec => []IsolatedOtherwise
<1>1. SharedFileInv => IsolatedOtherwise
  <2> SUFFICES ASSUME SharedFileInv, lapses = {}, NEW p \in Procs, Reads(p)
               PROVE  ~torn /\ seen[p] = version
    BY DEF IsolatedOtherwise, Isolated
  <2>1. /\ SharedFileTypeOK /\ Table /\ LockAt /\ TornSafe /\ Fresh
        /\ at[p] = "rest" /\ pagerState[p] \in {"shared", "reserved"}
    BY DEF SharedFileInv, Reads
  <2>2. seen[p] = version /\ (p \in shared \/ pagerState[p] = "reserved")
    BY <2>1 DEF Fresh
  <2>3. ASSUME NEW q \in Procs, at[q] = "finish" PROVE FALSE
    <3>1. exclusive = q /\ reserved = q /\ q # Nobody /\ p # q
      BY <2>1, <2>3 DEF Table, Alone
    <3>2. shared = {} /\ pagerState[p] # "reserved"
      BY <2>1, <3>1 DEF Table
    <3> QED BY <2>2, <3>2
  <2>4. ~Quiet(p)
    BY <2>1 DEF Quiet
  <2> QED BY <2>1, <2>2, <2>3, <2>4 DEF TornSafe
<1> QED BY <1>1, SharedFileInvariant, PTL

\* Before the first lapse, a file that a process leaves half written has a
\* journal that restores it.
THEOREM RepairableAlways == SharedFileSpec => []RepairableOtherwise
<1>1. SharedFileInv => RepairableOtherwise
  BY DEF SharedFileInv, RepairableOtherwise, Repairable, TornSafe
<1> QED BY <1>1, SharedFileInvariant, PTL

(***************************************************************************)
(* The free pages: what sqlite3pager_get, _write, _dont_write and          *)
(* _dont_rollback keep of a pager, what the calls of the B-tree do to the  *)
(* list, and then every action of the module.                              *)
(***************************************************************************)
\* What sqlite3pager_get finds in page p, in a file f and a pager g.
At(f, p) == IF p <= Len(f) THEN f[p] ELSE Zeros
EntryOf(f, g, p) ==
    IF p \in DOMAIN g.cache THEN g.cache[p]
    ELSE Entry(IF p > g.dbSize THEN Zeros ELSE At(f, p), p \in g.inJournal)
View(f, g) == [p \in PageNumbers |-> EntryOf(f, g, p)]

\* The pages of the records after the first k, and that one of those has c for
\* page p.  The statement has what it saved and what the journal got since then.
RecordedFrom(recs, k) == {recs[i].page : i \in k + 1..Len(recs)}
Has(recs, k, p, c) == \E i \in k + 1..Len(recs) : recs[i].page = p /\ recs[i].content = c
Once(recs) == \A i, j \in 1..Len(recs) : recs[i].page = recs[j].page => i = j
InStmt(g) == Recorded(g.stmt.saved) \cup RecordedFrom(g.journal, g.stmt.skip)

\* Of a pager g that has the entries e: the bitmap of saved pages and the flags
\* of the entries agree, and beyond the end of the file nothing is saved or dirty.
Marks(g, e) ==
    /\ Recorded(g.journal) \subseteq g.inJournal
    /\ Once(g.journal)
    /\ \A p \in PageNumbers : p <= g.origDbSize => (e[p].inJournal <=> p \in g.inJournal)
    /\ \A p \in PageNumbers : p > g.dbSize => ~e[p].inJournal /\ ~e[p].dirty
\* The same of the statement: no page is in its records twice.
StmtMarks(g) ==
    /\ InStmt(g) \subseteq g.stmt.marked
    /\ Recorded(g.stmt.saved) \cap (1..g.origDbSize) \subseteq g.inJournal
    /\ Once(g.stmt.saved)
    /\ Recorded(g.stmt.saved) \cap RecordedFrom(g.journal, g.stmt.skip) = {}
\* The file is shorter than the pager takes it for only while the page that will
\* extend it is dirty.
Sizes(f, g, e) ==
    /\ Len(f) <= g.dbSize
    /\ g.dbSize <= Len(f) \/ e[g.dbSize].dirty
    /\ g.origDbSize <= Len(f)
\* What is not dirty in the pages h is in the file.
NowKept(f, g, e, h) ==
    \A p \in h : p <= g.dbSize /\ (~e[p].dirty => At(f, p) = e[p].content)
\* The contents c when the transaction began can be had again in the pages h: from
\* the journal, or from the file as it is.  A saved page that is clean while the
\* file has not been written is one that dont_write has made clean.
TransKept(f, g, e, h, c, d) ==
    \A p \in h :
        /\ p <= g.origDbSize
        /\ g.state = "reserved" => At(f, p) = c[p]
        /\ p \in g.inJournal => Has(g.journal, 0, p, c[p])
        /\ p \in g.inJournal /\ g.state = "reserved" => e[p].dirty \/ p \in d
        /\ p \notin g.inJournal => At(f, p) = c[p] /\ ~e[p].dirty /\ e[p].content = c[p]
\* The page of a record that is not counted yet is not written before: it waits, and
\* the file has its old contents; unless it is among the pages ea.
WaitKept(f, g, e, h, c, ea) ==
    \A p \in h \ ea : p \in RecordedFrom(g.journal, g.counted)
                     => At(f, p) = c[p] /\ e[p].needSync
\* TransKept of the contents c when the statement began.
StmtKept(f, g, e, h, c) ==
    \A p \in h :
        /\ p <= g.stmt.size
        /\ p \in InStmt(g) => Has(g.stmt.saved, 0, p, c[p]) \/ Has(g.journal, g.stmt.skip, p, c[p])
        /\ p \in InStmt(g) /\ g.state = "reserved" => e[p].dirty
        /\ p \notin InStmt(g) => p \notin g.stmt.marked /\ e[p].content = c[p]
        /\ p \notin InStmt(g) /\ ~e[p].dirty => At(f, p) = c[p]
\* dont_rollback has no effect on the pages h: that is needed of those that are
\* free now and were in use at a point where a rollback goes back to.
Flagged(g, e, h) == \A p \in h : g.alwaysRollback \/ e[p].alwaysRollback

GoodFile(f) == f \in Seq(AllContents) /\ Len(f) \in PageNumbers

GoodPager(g) ==
    /\ g \in PagersWith(g.cache)
    /\ g.cache \in [DOMAIN g.cache -> Entries]
    /\ DOMAIN g.cache \subseteq PageNumbers
    /\ g.inJournal \subseteq 1..g.origDbSize /\ g.origDbSize <= g.dbSize
    /\ g.counted <= Len(g.journal)
    /\ g.stmt.inUse => /\ g.origDbSize <= g.stmt.size
                       /\ g.stmt.size <= g.dbSize
                       /\ g.stmt.skip <= Len(g.journal)
                       /\ g.stmt.marked \subseteq 1..g.stmt.size

-----------------------------------------------------------------------------
\* Page numbers are numbers.
LEMMA PageNumber ==
    /\ MostPages \in Nat /\ 1 \in PageNumbers
    /\ \A p \in PageNumbers : p \in Nat /\ p >= 1 /\ p <= MostPages
    BY FreePagesAssumption DEF PageNumbers

\* A page without contents, a row and a trunk are contents of a page.
LEMMA ContentsType ==
    /\ Zeros \in AllContents
    /\ \A v \in Data : Row(v) \in AllContents
    BY FreePagesAssumption, <<>> \in Seq(PageNumbers) DEF Zeros, Row, Contents, AllContents

\* What is read of a file.
LEMMA AtType ==
    ASSUME NEW f, GoodFile(f), NEW p \in PageNumbers
    PROVE  At(f, p) \in AllContents
    <1>1. p \in Nat /\ p >= 1
      BY PageNumber
    <1>2. CASE p <= Len(f)
      <2>1. Len(f) \in Nat
        BY LenProperties DEF GoodFile
      <2>2. p \in 1..Len(f)
        BY <1>1, <1>2, <2>1
      <2>3. f[p] \in AllContents
        BY <2>2, ElementOfSeq DEF GoodFile
      <2> QED BY <1>2, <2>3 DEF At
    <1>3. CASE ~(p <= Len(f))
      BY <1>3, ContentsType DEF At
    <1> QED BY <1>2, <1>3

\* What the pager has of a page.
LEMMA EntryType ==
    ASSUME NEW f, GoodFile(f), NEW g, GoodPager(g), NEW p \in PageNumbers
    PROVE  EntryOf(f, g, p) \in Entries
    <1>1. CASE p \in DOMAIN g.cache
      BY <1>1 DEF EntryOf, GoodPager
    <1>2. CASE p \notin DOMAIN g.cache
      <2>1. (IF p > g.dbSize THEN Zeros ELSE At(f, p)) \in AllContents
        BY AtType, ContentsType
      <2>2. (p \in g.inJournal) \in BOOLEAN
        OBVIOUS
      <2> QED BY <1>2, <2>1, <2>2 DEF EntryOf, Entry, Entries
    <1> QED BY <1>1, <1>2

\* ... of all pages.
LEMMA ViewType ==
    ASSUME NEW f, GoodFile(f), NEW g, GoodPager(g)
    PROVE  /\ View(f, g) \in [PageNumbers -> Entries]
           /\ \A p \in PageNumbers : View(f, g)[p] = EntryOf(f, g, p)
    BY EntryType DEF View

\* The fields of a pager.
LEMMA PagerFields ==
    ASSUME NEW g, GoodPager(g)
    PROVE  /\ g.state \in {"shared", "reserved", "exclusive"}
           /\ g.dbSize \in PageNumbers /\ g.dbSize \in Nat
           /\ g.origDbSize \in Nat /\ g.origDbSize <= MostPages
           /\ g.alwaysRollback \in BOOLEAN
           /\ g.journal \in Seq(Records)
           /\ g.inJournal \subseteq PageNumbers
           /\ g.stmt \in Statements
           /\ g.stmt.inUse \in BOOLEAN
           /\ g.stmt.size \in Nat /\ g.stmt.skip \in Nat
           /\ g.stmt.saved \in Seq(Records) /\ g.stmt.marked \subseteq PageNumbers
           /\ Len(g.journal) \in Nat
           /\ g.counted \in Nat /\ g.started \in BOOLEAN
    <1>1. g \in PagersWith(g.cache)
      BY DEF GoodPager
    <1>2. /\ g.state \in {"shared", "reserved", "exclusive"}
          /\ g.dbSize \in PageNumbers
          /\ g.origDbSize \in 0..MostPages
          /\ g.alwaysRollback \in BOOLEAN
          /\ g.journal \in Seq(Records)
          /\ g.inJournal \in SUBSET PageNumbers
          /\ g.counted \in Nat /\ g.started \in BOOLEAN
          /\ g.stmt \in Statements
      BY <1>1 DEF PagersWith
    <1>3. g.dbSize \in Nat /\ g.origDbSize \in Nat /\ g.origDbSize <= MostPages
      BY <1>2, PageNumber
    <1>4. /\ g.stmt.inUse \in BOOLEAN
          /\ g.stmt.size \in 0..MostPages /\ g.stmt.skip \in Nat
          /\ g.stmt.saved \in Seq(Records) /\ g.stmt.marked \in SUBSET PageNumbers
      BY <1>2 DEF Statements
    <1>5. g.stmt.size \in Nat
      BY <1>4, PageNumber
    <1>6. Len(g.journal) \in Nat
      BY <1>2, LenProperties
    <1> QED BY <1>2, <1>3, <1>4, <1>5, <1>6

-----------------------------------------------------------------------------
\* sqlite3pager_get changes nothing but the cache, and there it adds what is
\* found anyway.
LEMMA FetchedFacts ==
    ASSUME NEW g, GoodPager(g), GoodFile(dbFile), NEW p \in PageNumbers
    PROVE  /\ Fetched(g, p) \in PagersWith(Fetched(g, p).cache)
           /\ DOMAIN Fetched(g, p).cache = DOMAIN g.cache \cup {p}
           /\ \A q \in DOMAIN Fetched(g, p).cache : Fetched(g, p).cache[q] = EntryOf(dbFile, g, q)
           /\ Fetched(g, p).cache \in [DOMAIN g.cache \cup {p} -> Entries]
           /\ Fetched(g, p).state = g.state
           /\ Fetched(g, p).dbSize = g.dbSize
           /\ Fetched(g, p).origDbSize = g.origDbSize
           /\ Fetched(g, p).alwaysRollback = g.alwaysRollback
           /\ Fetched(g, p).journal = g.journal
           /\ Fetched(g, p).inJournal = g.inJournal
           /\ Fetched(g, p).stmt = g.stmt
           /\ Fetched(g, p).counted = g.counted /\ Fetched(g, p).started = g.started
    <1> DEFINE c == [q \in DOMAIN g.cache \cup {p} |->
                        IF q \in DOMAIN g.cache THEN g.cache[q]
                        ELSE Entry(IF p > g.dbSize THEN Zeros ELSE InFile(p), p \in g.inJournal)]
    <1>0. g \in PagersWith(g.cache) /\ g.cache \in [DOMAIN g.cache -> Entries]
          /\ DOMAIN g.cache \subseteq PageNumbers
      BY DEF GoodPager
    <1>1. CASE p \in DOMAIN g.cache
      <2>1. Fetched(g, p) = g
        BY <1>1 DEF Fetched
      <2>2. \A q \in DOMAIN g.cache : g.cache[q] = EntryOf(dbFile, g, q)
        BY DEF EntryOf
      <2>3. DOMAIN g.cache \cup {p} = DOMAIN g.cache
        BY <1>1
      <2> QED BY <2>1, <2>2, <2>3, <1>0
    <1>2. CASE p \notin DOMAIN g.cache
      <2>1. Fetched(g, p) = [g EXCEPT !.cache = c]
        BY <1>2 DEF Fetched
      <2>2. \A q \in DOMAIN c : c[q] = EntryOf(dbFile, g, q)
        <3> SUFFICES ASSUME NEW q \in DOMAIN c
                     PROVE  c[q] = EntryOf(dbFile, g, q)
          OBVIOUS
        <3>1. CASE q \in DOMAIN g.cache
          BY <3>1 DEF EntryOf
        <3>2. CASE q \notin DOMAIN g.cache
          <4>1. q = p
            BY <3>2
          <4>2. InFile(p) = At(dbFile, p)
            BY DEF InFile, At
          <4> QED BY <4>1, <4>2, <3>2 DEF EntryOf
        <3> QED BY <3>1, <3>2
      <2>3. \A q \in DOMAIN c : c[q] \in Entries
        BY <2>2, EntryType, <1>0
      <2>4. c \in [DOMAIN g.cache \cup {p} -> Entries]
        BY <2>3
      <2> HIDE DEF c
      <2>5. Fetched(g, p).cache = c
        BY <2>1, <1>0 DEF PagersWith
      <2>6. [g EXCEPT !.cache = c] \in PagersWith(c)
        BY <1>0 DEF PagersWith
      <2>7. Fetched(g, p) \in PagersWith(Fetched(g, p).cache)
        BY <2>1, <2>5, <2>6
      <2>8. /\ Fetched(g, p).state = g.state
            /\ Fetched(g, p).dbSize = g.dbSize
            /\ Fetched(g, p).origDbSize = g.origDbSize
            /\ Fetched(g, p).alwaysRollback = g.alwaysRollback
            /\ Fetched(g, p).journal = g.journal
            /\ Fetched(g, p).inJournal = g.inJournal
            /\ Fetched(g, p).stmt = g.stmt
            /\ Fetched(g, p).counted = g.counted /\ Fetched(g, p).started = g.started
        BY <2>1, <1>0 DEF PagersWith
      <2>9. DOMAIN Fetched(g, p).cache = DOMAIN g.cache \cup {p}
        BY <2>4, <2>5
      <2> QED BY <2>2, <2>4, <2>5, <2>7, <2>8, <2>9
    <1> QED BY <1>1, <1>2

\* What the pager has of page p is what sqlite3pager_get finds.
LEMMA ContentIs ==
    ASSUME NEW g, GoodPager(g), GoodFile(dbFile), NEW p \in PageNumbers
    PROVE  /\ Content(g, p) = View(dbFile, g)[p].content
           /\ Fetched(g, p).cache[p] = View(dbFile, g)[p]
    <1>0. DOMAIN Fetched(g, p).cache = DOMAIN g.cache \cup {p}
      BY FetchedFacts
    <1>1. p \in DOMAIN Fetched(g, p).cache
      BY <1>0
    <1>a. \A q \in DOMAIN Fetched(g, p).cache : Fetched(g, p).cache[q] = EntryOf(dbFile, g, q)
      BY FetchedFacts
    <1>2. Fetched(g, p).cache[p] = EntryOf(dbFile, g, p)
      BY <1>1, <1>a
    <1>3. View(dbFile, g)[p] = EntryOf(dbFile, g, p)
      BY DEF View
    <1> QED BY <1>2, <1>3 DEF Content

-----------------------------------------------------------------------------
\* What sqlite3pager_write does to what there is of the pages.
Journaled(g, e, p) == ~e[p].inJournal /\ p <= g.origDbSize
SavedNow(g, e, p) == /\ g.stmt.inUse /\ p \notin g.stmt.marked
                     /\ ~Journaled(g, e, p) /\ p <= g.stmt.size
Marked(g, e, p) == g.stmt.inUse /\ (Journaled(g, e, p) \/ SavedNow(g, e, p))
Before(e, p) == [page |-> p, content |-> e[p].content]
Writes(g, e, p, c, g2, e2) ==
    /\ e2[p].content = c /\ e2[p].dirty /\ e2[p].inJournal
    /\ e2[p].alwaysRollback = e[p].alwaysRollback
    /\ e2[p].needSync = (IF e[p].inJournal THEN e[p].needSync ELSE p <= g.origDbSize \/ ~g.started)
    /\ \A q \in PageNumbers \ {p} : e2[q] = e[q]
    /\ g2.state = g.state /\ g2.origDbSize = g.origDbSize /\ g2.alwaysRollback = g.alwaysRollback
    /\ g2.dbSize = IF p > g.dbSize THEN p ELSE g.dbSize
    /\ g2.journal = IF Journaled(g, e, p) THEN Append(g.journal, Before(e, p)) ELSE g.journal
    /\ g2.inJournal = IF Journaled(g, e, p) THEN g.inJournal \cup {p} ELSE g.inJournal
    /\ g2.counted = g.counted /\ g2.started = g.started
    /\ g2.stmt.inUse = g.stmt.inUse /\ g2.stmt.size = g.stmt.size /\ g2.stmt.skip = g.stmt.skip
    /\ g2.stmt.saved = IF SavedNow(g, e, p) THEN Append(g.stmt.saved, Before(e, p)) ELSE g.stmt.saved
    /\ g2.stmt.marked = IF Marked(g, e, p) THEN g.stmt.marked \cup {p} ELSE g.stmt.marked

\* A record is of the type of the records.
LEMMA BeforeType ==
    ASSUME NEW g, GoodPager(g), NEW f, GoodFile(f), NEW e, e = View(f, g), NEW p \in PageNumbers
    PROVE  Before(e, p) \in Records
    <1>1. e[p] \in Entries
      BY ViewType
    <1> QED BY <1>1 DEF Before, Records, Entries

\* A page number that is not too large is in a range.
LEMMA InRange ==
    ASSUME NEW p \in PageNumbers, NEW n \in Nat, p <= n
    PROVE  p \in 1..n
    BY PageNumber

\* What a pager that has grown has to keep.
LEMMA StaysGood ==
    ASSUME NEW g, GoodPager(g), NEW w, w \in PagersWith(w.cache),
           w.cache \in [DOMAIN w.cache -> Entries], DOMAIN w.cache \subseteq PageNumbers,
           w.origDbSize = g.origDbSize, w.counted = g.counted, g.dbSize <= w.dbSize,
           w.stmt.inUse = g.stmt.inUse, w.stmt.size = g.stmt.size, w.stmt.skip = g.stmt.skip,
           Len(g.journal) <= Len(w.journal), w.inJournal \subseteq 1..g.origDbSize,
           g.stmt.inUse => w.stmt.marked \subseteq 1..g.stmt.size
    PROVE  GoodPager(w)
    <1>1. g.dbSize \in Nat /\ g.origDbSize \in Nat /\ g.stmt.size \in Nat /\ g.stmt.skip \in Nat
          /\ Len(g.journal) \in Nat
      BY PagerFields
    <1>2. w.dbSize \in Nat /\ Len(w.journal) \in Nat
      <2>1. w.dbSize \in PageNumbers /\ w.journal \in Seq(Records)
        BY DEF PagersWith
      <2> QED BY <2>1, PageNumber, LenProperties
    <1>3. w.origDbSize <= w.dbSize
      <2>1. g.origDbSize <= g.dbSize
        BY DEF GoodPager
      <2> QED BY <2>1, <1>1, <1>2
    <1>4. ASSUME w.stmt.inUse
          PROVE  /\ w.origDbSize <= w.stmt.size /\ w.stmt.size <= w.dbSize
                 /\ w.stmt.skip <= Len(w.journal)
      <2>1. g.origDbSize <= g.stmt.size /\ g.stmt.size <= g.dbSize /\ g.stmt.skip <= Len(g.journal)
        BY <1>4 DEF GoodPager
      <2> QED BY <2>1, <1>1, <1>2
    <1>5. w.counted <= Len(w.journal)
      <2>1. g.counted <= Len(g.journal) /\ g.counted \in Nat
        BY PagerFields DEF GoodPager
      <2> QED BY <2>1, <1>1, <1>2
    <1> QED BY <1>3, <1>4, <1>5 DEF GoodPager

LEMMA WrittenEffect ==
    ASSUME NEW g, GoodPager(g), GoodFile(dbFile), NEW p \in PageNumbers, NEW c \in AllContents,
           NEW e, e = View(dbFile, g), NEW w, w = Written(g, p, c),
           p > g.dbSize => ~e[p].inJournal, p <= g.dbSize + 1
    PROVE  /\ GoodPager(w)
           /\ DOMAIN w.cache = DOMAIN g.cache \cup {p}
           /\ Writes(g, e, p, c, w, View(dbFile, w))
    <1> DEFINE f == Fetched(g, p)
               j == Journaled(g, e, p)
               s == SavedNow(g, e, p)
               wa == Waits(g, p)
               x == Changed(f.cache[p], c, wa)
               ca == [f.cache EXCEPT ![p] = x]
               jo == IF j THEN Append(g.journal, Before(e, p)) ELSE g.journal
               ij == IF j THEN g.inJournal \cup {p} ELSE g.inJournal
               st == IF ~g.stmt.inUse \/ ~(s \/ j) THEN g.stmt
                     ELSE [g.stmt EXCEPT !.saved = IF s THEN Append(g.stmt.saved, Before(e, p))
                                                   ELSE g.stmt.saved,
                                         !.marked = g.stmt.marked \cup {p}]
               db == IF ~Known(g, p) /\ p > g.dbSize THEN p ELSE g.dbSize
    <1>1. f.cache[p] = e[p]
      BY ContentIs
    <1>2. Journals(g, p) = j
      BY <1>1 DEF Journals, Journaled
    <1>3. Saves(g, p) = s
      BY <1>2 DEF Saves, SavedNow
    <1>4. w = [f EXCEPT !.cache = ca, !.journal = jo, !.inJournal = ij, !.stmt = st, !.dbSize = db]
      <2> HIDE DEF j, s
      <2> QED BY <1>1, <1>2, <1>3 DEF Written, Before
    <1>5. /\ f \in PagersWith(f.cache)
          /\ f.cache \in [DOMAIN g.cache \cup {p} -> Entries]
          /\ \A q \in DOMAIN g.cache \cup {p} : f.cache[q] = EntryOf(dbFile, g, q)
      <2>1. DOMAIN f.cache = DOMAIN g.cache \cup {p}
        BY FetchedFacts
      <2>2. \A q \in DOMAIN f.cache : f.cache[q] = EntryOf(dbFile, g, q)
        BY FetchedFacts
      <2> QED BY <2>1, <2>2, FetchedFacts
    <1>6. /\ f.state = g.state /\ f.dbSize = g.dbSize /\ f.origDbSize = g.origDbSize
          /\ f.alwaysRollback = g.alwaysRollback /\ f.journal = g.journal
          /\ f.inJournal = g.inJournal /\ f.stmt = g.stmt
          /\ f.counted = g.counted /\ f.started = g.started
      BY FetchedFacts
    <1>7. e[p] \in Entries
      BY ViewType
    <1>w. /\ wa \in BOOLEAN
          /\ wa = (IF e[p].inJournal THEN e[p].needSync ELSE p <= g.origDbSize \/ ~g.started)
      BY <1>1, <1>7, PagerFields DEF Waits, Entries
    <1> HIDE DEF wa
    <1>8. x \in Entries /\ x.content = c /\ x.dirty /\ x.inJournal
          /\ x.alwaysRollback = e[p].alwaysRollback /\ x.needSync = wa
      BY <1>1, <1>7, <1>w DEF Entries, Changed
    <1>9. /\ ca \in [DOMAIN g.cache \cup {p} -> Entries]
          /\ \A q \in DOMAIN g.cache \ {p} : ca[q] = g.cache[q]
          /\ ca[p] = x
      <2> HIDE DEF x
      <2>1. \A q \in DOMAIN g.cache : EntryOf(dbFile, g, q) = g.cache[q]
        BY DEF EntryOf
      <2> QED BY <1>5, <1>8, <2>1
    <1>10. Before(e, p) \in Records
      BY BeforeType
    <1>11. jo \in Seq(Records) /\ jo = IF j THEN Append(g.journal, Before(e, p)) ELSE g.journal
      BY <1>6, <1>10, PagerFields, AppendProperties
    <1>12. ij \in SUBSET PageNumbers /\ ij = IF j THEN g.inJournal \cup {p} ELSE g.inJournal
      BY <1>6, PagerFields
    <1>13. (IF s THEN Append(g.stmt.saved, Before(e, p)) ELSE g.stmt.saved) \in Seq(Records)
      BY <1>10, PagerFields, AppendProperties
    <1>14. /\ st \in Statements
           /\ st.inUse = g.stmt.inUse /\ st.size = g.stmt.size /\ st.skip = g.stmt.skip
           /\ st.saved = IF s THEN Append(g.stmt.saved, Before(e, p)) ELSE g.stmt.saved
           /\ st.marked = IF Marked(g, e, p) THEN g.stmt.marked \cup {p} ELSE g.stmt.marked
      <2> DEFINE sv == IF s THEN Append(g.stmt.saved, Before(e, p)) ELSE g.stmt.saved
      <2>1. g.stmt \in Statements
        BY PagerFields
      <2>2. CASE ~g.stmt.inUse \/ ~(s \/ j)
        <3>1. st = g.stmt
          BY <2>2, <1>6
        <3>2. ~s /\ ~Marked(g, e, p)
          BY <2>2 DEF SavedNow, Marked
        <3> QED BY <3>1, <3>2, <2>1
      <2>3. CASE g.stmt.inUse /\ (s \/ j)
        <3> HIDE DEF s, j
        <3>1. st = [g.stmt EXCEPT !.saved = sv, !.marked = g.stmt.marked \cup {p}]
          BY <2>3, <1>6
        <3>2. Marked(g, e, p)
          BY <2>3 DEF Marked, s, j
        <3>3. sv \in Seq(Records)
          BY <1>13
        <3> HIDE DEF sv, st
        <3>4. /\ st.inUse = g.stmt.inUse /\ st.size = g.stmt.size /\ st.skip = g.stmt.skip
              /\ st.saved = sv /\ st.marked = g.stmt.marked \cup {p} /\ st \in Statements
          BY <3>1, <3>3, <2>1 DEF Statements
        <3> QED BY <3>2, <3>4 DEF sv
      <2> QED BY <2>2, <2>3
    <1>15. db \in PageNumbers /\ db = IF p > g.dbSize THEN p ELSE g.dbSize
      <2>1. p > g.dbSize => ~Known(g, p)
        BY <1>1 DEF Known
      <2> QED BY <2>1, <1>6, PagerFields
    <1> HIDE DEF f, j, s, x, ca, jo, ij, st, db
    <1>16. w \in PagersWith(ca)
      BY <1>4, <1>5, <1>9, <1>11, <1>12, <1>14, <1>15 DEF PagersWith
    <1>17. /\ w.cache = ca /\ w.journal = jo /\ w.inJournal = ij /\ w.stmt = st /\ w.dbSize = db
           /\ w.state = f.state /\ w.origDbSize = f.origDbSize /\ w.alwaysRollback = f.alwaysRollback
           /\ w.counted = f.counted /\ w.started = f.started
      BY <1>4, <1>5 DEF PagersWith
    <1>18. w \in PagersWith(w.cache)
      BY <1>16, <1>17
    <1>19. /\ w.cache \in [DOMAIN g.cache \cup {p} -> Entries]
           /\ \A q \in DOMAIN g.cache \ {p} : w.cache[q] = g.cache[q]
           /\ w.cache[p].content = c /\ w.cache[p].dirty /\ w.cache[p].inJournal
           /\ w.cache[p].alwaysRollback = e[p].alwaysRollback /\ w.cache[p].needSync = wa
      BY <1>8, <1>9, <1>17
    <1>20. /\ w.stmt.inUse = g.stmt.inUse /\ w.stmt.size = g.stmt.size /\ w.stmt.skip = g.stmt.skip
           /\ w.stmt.saved = IF s THEN Append(g.stmt.saved, Before(e, p)) ELSE g.stmt.saved
           /\ w.stmt.marked = IF Marked(g, e, p) THEN g.stmt.marked \cup {p} ELSE g.stmt.marked
      BY <1>14, <1>17
    <1>21. /\ w.journal = IF j THEN Append(g.journal, Before(e, p)) ELSE g.journal
           /\ w.inJournal = IF j THEN g.inJournal \cup {p} ELSE g.inJournal
           /\ w.dbSize = IF p > g.dbSize THEN p ELSE g.dbSize
           /\ w.state = g.state /\ w.origDbSize = g.origDbSize /\ w.alwaysRollback = g.alwaysRollback
           /\ w.counted = g.counted /\ w.started = g.started
      BY <1>6, <1>11, <1>12, <1>15, <1>17
    <1>31. /\ w \in PagersWith(w.cache)
           /\ w.cache \in [DOMAIN g.cache \cup {p} -> Entries]
           /\ \A q \in DOMAIN g.cache \ {p} : w.cache[q] = g.cache[q]
           /\ w.cache[p].content = c /\ w.cache[p].dirty /\ w.cache[p].inJournal
           /\ w.cache[p].alwaysRollback = e[p].alwaysRollback /\ w.cache[p].needSync = wa
      BY <1>18, <1>19
    <1>32. /\ w.state = g.state /\ w.origDbSize = g.origDbSize
           /\ w.alwaysRollback = g.alwaysRollback
           /\ w.dbSize = IF p > g.dbSize THEN p ELSE g.dbSize
           /\ w.journal = IF Journaled(g, e, p) THEN Append(g.journal, Before(e, p)) ELSE g.journal
           /\ w.inJournal = IF Journaled(g, e, p) THEN g.inJournal \cup {p} ELSE g.inJournal
           /\ w.counted = g.counted /\ w.started = g.started
      BY <1>21 DEF j
    <1>33. /\ w.stmt.inUse = g.stmt.inUse /\ w.stmt.size = g.stmt.size /\ w.stmt.skip = g.stmt.skip
           /\ w.stmt.saved = IF SavedNow(g, e, p) THEN Append(g.stmt.saved, Before(e, p))
                                                  ELSE g.stmt.saved
           /\ w.stmt.marked = IF Marked(g, e, p) THEN g.stmt.marked \cup {p} ELSE g.stmt.marked
      BY <1>20 DEF s
    <1>34. DOMAIN w.cache = DOMAIN g.cache \cup {p}
      BY <1>31
    <1>35. g.dbSize \in Nat /\ p \in Nat
      BY PagerFields, PageNumber
    <1>36. DOMAIN g.cache \subseteq PageNumbers
      BY DEF GoodPager
    <1>37. GoodPager(w)
      <2>1. w.cache \in [DOMAIN w.cache -> Entries]
        BY <1>31, <1>34
      <2>2. DOMAIN w.cache \subseteq PageNumbers
        BY <1>34, <1>36
      <2>3. g.dbSize <= w.dbSize
        BY <1>32, <1>35
      <2>4. Len(g.journal) <= Len(w.journal)
        <3>1. Before(e, p) \in Records
          BY BeforeType
        <3>2. g.journal \in Seq(Records) /\ Len(g.journal) \in Nat
          BY PagerFields
        <3>3. Len(Append(g.journal, Before(e, p))) = Len(g.journal) + 1
          BY <3>1, <3>2, AppendProperties
        <3> QED BY <3>2, <3>3, <1>32
      <2>5. w.inJournal \subseteq 1..g.origDbSize
        <3>1. g.inJournal \subseteq 1..g.origDbSize
          BY DEF GoodPager
        <3>2. Journaled(g, e, p) => p \in 1..g.origDbSize
          BY InRange, PagerFields DEF Journaled
        <3> QED BY <3>1, <3>2, <1>32
      <2>6. g.stmt.inUse => w.stmt.marked \subseteq 1..g.stmt.size
        <3> SUFFICES ASSUME g.stmt.inUse PROVE w.stmt.marked \subseteq 1..g.stmt.size
          OBVIOUS
        <3>1. g.stmt.marked \subseteq 1..g.stmt.size
          BY DEF GoodPager
        <3>2. Marked(g, e, p) => p <= g.stmt.size
          <4>1. g.origDbSize <= g.stmt.size
            BY DEF GoodPager
          <4>2. g.origDbSize \in Nat /\ g.stmt.size \in Nat
            BY PagerFields
          <4>3. Journaled(g, e, p) => p <= g.stmt.size
            BY <4>1, <4>2, <1>35 DEF Journaled
          <4> QED BY <4>3 DEF Marked, SavedNow
        <3>3. Marked(g, e, p) => p \in 1..g.stmt.size
          BY <3>2, InRange, PagerFields
        <3> QED BY <3>1, <3>3, <1>33
      <2> QED BY <2>1, <2>2, <2>3, <2>4, <2>5, <2>6, <1>31, <1>32, <1>33, StaysGood
    <1>38. \A q \in PageNumbers \ {p} : EntryOf(dbFile, w, q) = EntryOf(dbFile, g, q)
      <2> SUFFICES ASSUME NEW q \in PageNumbers \ {p}
                   PROVE  EntryOf(dbFile, w, q) = EntryOf(dbFile, g, q)
        OBVIOUS
      <2>1. CASE q \in DOMAIN g.cache
        BY <2>1, <1>31, <1>34 DEF EntryOf
      <2>2. CASE q \notin DOMAIN g.cache
        <3>1. q \notin DOMAIN w.cache
          BY <2>2, <1>34
        <3>2. (q > w.dbSize) = (q > g.dbSize)
          <4>1. q \in Nat /\ q # p
            BY PageNumber
          <4> QED BY <4>1, <1>32, <1>35
        <3>3. (q \in w.inJournal) = (q \in g.inJournal)
          BY <1>32
        <3> QED BY <3>1, <3>2, <3>3, <2>2, Zenon DEF EntryOf
      <2> QED BY <2>1, <2>2
    <1>39. View(dbFile, w)[p] = w.cache[p]
      BY <1>34 DEF View, EntryOf
    <1>40. \A q \in PageNumbers \ {p} : View(dbFile, w)[q] = e[q]
      BY <1>38 DEF View
    <1> QED BY <1>w, <1>31, <1>32, <1>33, <1>34, <1>37, <1>39, <1>40 DEF Writes

-----------------------------------------------------------------------------
\* What sqlite3pager_dont_write and sqlite3pager_dont_rollback do.
SameFields(g, w) ==
    /\ w.state = g.state /\ w.dbSize = g.dbSize /\ w.origDbSize = g.origDbSize
    /\ w.alwaysRollback = g.alwaysRollback /\ w.journal = g.journal
    /\ w.counted = g.counted
    /\ w.stmt.inUse = g.stmt.inUse /\ w.stmt.size = g.stmt.size
    /\ w.stmt.skip = g.stmt.skip /\ w.stmt.saved = g.stmt.saved
Dropping(g, e, p) == e[p].dirty /\ ~(g.dbSize = p /\ g.origDbSize < g.dbSize)
Releases(g, e, p, w, e2) ==
    /\ e2[p].content = e[p].content /\ e2[p].inJournal = e[p].inJournal
    /\ e2[p].alwaysRollback /\ e2[p].needSync = e[p].needSync
    /\ e2[p].dirty <=> e[p].dirty /\ ~Dropping(g, e, p)
    /\ \A q \in PageNumbers \ {p} : e2[q] = e[q]
    /\ SameFields(g, w) /\ w.inJournal = g.inJournal /\ w.stmt.marked = g.stmt.marked
Spares(g, e, p, w, e2) ==
    /\ \A q \in PageNumbers \ {p} : e2[q] = e[q]
    /\ SameFields(g, w)
    /\ e2[p].content = e[p].content /\ e2[p].dirty = e[p].dirty
    /\ e2[p].alwaysRollback = e[p].alwaysRollback /\ e2[p].needSync = e[p].needSync
    /\ \/ /\ e2[p].inJournal = e[p].inJournal
          /\ w.inJournal = g.inJournal /\ w.stmt.marked = g.stmt.marked
       \/ /\ ~e[p].alwaysRollback /\ ~g.alwaysRollback /\ g.state = "exclusive"
          /\ e2[p].inJournal <=> e[p].inJournal \/ p <= g.origDbSize
          /\ w.inJournal = IF p <= g.origDbSize THEN g.inJournal \cup {p} ELSE g.inJournal
          /\ w.stmt.marked = IF g.stmt.inUse /\ p <= g.stmt.size THEN g.stmt.marked \cup {p}
                             ELSE g.stmt.marked

\* A pager with another entry for one page, and with more pages in its bitmaps.
LEMMA ViewOfOther ==
    ASSUME NEW g, GoodPager(g), GoodFile(dbFile), NEW p \in PageNumbers, NEW w, GoodPager(w),
           DOMAIN w.cache = DOMAIN g.cache \cup {p}, w.dbSize = g.dbSize,
           \A q \in DOMAIN g.cache \ {p} : w.cache[q] = g.cache[q],
           \A q \in PageNumbers \ {p} : q \in w.inJournal <=> q \in g.inJournal
    PROVE  /\ \A q \in PageNumbers \ {p} : View(dbFile, w)[q] = View(dbFile, g)[q]
           /\ View(dbFile, w)[p] = w.cache[p]
    <1>1. \A q \in PageNumbers \ {p} : EntryOf(dbFile, w, q) = EntryOf(dbFile, g, q)
      <2> SUFFICES ASSUME NEW q \in PageNumbers \ {p}
                   PROVE  EntryOf(dbFile, w, q) = EntryOf(dbFile, g, q)
        OBVIOUS
      <2>1. CASE q \in DOMAIN g.cache
        BY <2>1 DEF EntryOf
      <2>2. CASE q \notin DOMAIN g.cache
        <3>1. q \notin DOMAIN w.cache
          BY <2>2
        <3>2. (q > w.dbSize) = (q > g.dbSize)
          OBVIOUS
        <3>3. (q \in w.inJournal) = (q \in g.inJournal)
          OBVIOUS
        <3> QED BY <3>1, <3>2, <3>3, <2>2, Zenon DEF EntryOf
      <2> QED BY <2>1, <2>2
    <1>2. EntryOf(dbFile, w, p) = w.cache[p]
      BY DEF EntryOf
    <1> QED BY <1>1, <1>2 DEF View

LEMMA DontWriteEffect ==
    ASSUME NEW g, GoodPager(g), GoodFile(dbFile), NEW p \in PageNumbers,
           NEW e, e = View(dbFile, g), NEW w, w = DontWrite(g, p)
    PROVE  /\ GoodPager(w)
           /\ DOMAIN w.cache = DOMAIN g.cache \cup {p}
           /\ Releases(g, e, p, w, View(dbFile, w))
           /\ Drops(g, p) <=> Dropping(g, e, p)
    <1> DEFINE f == Fetched(g, p)
               b == f.cache[p].dirty /\ ~Drops(g, p)
               x == [f.cache[p] EXCEPT !.alwaysRollback = TRUE, !.dirty = b]
               ca == [f.cache EXCEPT ![p] = x]
    <1>1. f.cache[p] = e[p]
      BY ContentIs
    <1>2. Drops(g, p) <=> Dropping(g, e, p)
      BY <1>1 DEF Drops, Dropping
    <1>3. w = [f EXCEPT !.cache = ca]
      BY DEF DontWrite
    <1>4. /\ f \in PagersWith(f.cache)
          /\ f.cache \in [DOMAIN g.cache \cup {p} -> Entries]
          /\ \A q \in DOMAIN g.cache \cup {p} : f.cache[q] = EntryOf(dbFile, g, q)
      <2>1. DOMAIN f.cache = DOMAIN g.cache \cup {p}
        BY FetchedFacts
      <2>2. \A q \in DOMAIN f.cache : f.cache[q] = EntryOf(dbFile, g, q)
        BY FetchedFacts
      <2> QED BY <2>1, <2>2, FetchedFacts
    <1>5. /\ f.state = g.state /\ f.dbSize = g.dbSize /\ f.origDbSize = g.origDbSize
          /\ f.alwaysRollback = g.alwaysRollback /\ f.journal = g.journal
          /\ f.inJournal = g.inJournal /\ f.stmt = g.stmt /\ f.counted = g.counted
      BY FetchedFacts
    <1>6. e[p] \in Entries
      BY ViewType
    <1>7. /\ x \in Entries /\ x.content = e[p].content /\ x.inJournal = e[p].inJournal
          /\ x.alwaysRollback /\ x.needSync = e[p].needSync /\ (x.dirty <=> e[p].dirty /\ ~Dropping(g, e, p))
      <2>1. b \in BOOLEAN /\ (b <=> e[p].dirty /\ ~Dropping(g, e, p))
        BY <1>1, <1>2
      <2> HIDE DEF b
      <2> QED BY <2>1, <1>1, <1>6 DEF Entries
    <1>8. /\ ca \in [DOMAIN g.cache \cup {p} -> Entries]
          /\ \A q \in DOMAIN g.cache \ {p} : ca[q] = g.cache[q]
          /\ ca[p] = x
      <2> HIDE DEF x
      <2>1. \A q \in DOMAIN g.cache : EntryOf(dbFile, g, q) = g.cache[q]
        BY DEF EntryOf
      <2> QED BY <1>4, <1>7, <2>1
    <1> HIDE DEF f, x, ca
    <1>9. w \in PagersWith(ca)
      BY <1>3, <1>4 DEF PagersWith
    <1>10. /\ w.cache = ca /\ w.journal = f.journal /\ w.inJournal = f.inJournal
           /\ w.stmt = f.stmt /\ w.dbSize = f.dbSize
           /\ w.state = f.state /\ w.origDbSize = f.origDbSize /\ w.alwaysRollback = f.alwaysRollback
           /\ w.counted = f.counted
      BY <1>3, <1>4 DEF PagersWith
    <1>11. DOMAIN w.cache = DOMAIN g.cache \cup {p}
      BY <1>8, <1>10
    <1>12. GoodPager(w)
      <2>1. w \in PagersWith(w.cache)
        BY <1>9, <1>10
      <2>2. w.cache \in [DOMAIN w.cache -> Entries]
        BY <1>8, <1>10, <1>11
      <2>3. DOMAIN g.cache \subseteq PageNumbers
        BY DEF GoodPager
      <2>4. DOMAIN w.cache \subseteq PageNumbers
        BY <2>3, <1>11
      <2>5. g.dbSize <= w.dbSize /\ Len(g.journal) <= Len(w.journal)
        <3>1. g.dbSize \in Nat /\ Len(g.journal) \in Nat
          BY PagerFields
        <3> QED BY <3>1, <1>5, <1>10
      <2>6. g.inJournal \subseteq 1..g.origDbSize
            /\ (g.stmt.inUse => g.stmt.marked \subseteq 1..g.stmt.size)
        BY DEF GoodPager
      <2>7. /\ w.origDbSize = g.origDbSize /\ w.stmt.inUse = g.stmt.inUse
            /\ w.stmt.size = g.stmt.size /\ w.stmt.skip = g.stmt.skip
            /\ w.inJournal = g.inJournal /\ w.stmt.marked = g.stmt.marked
            /\ w.counted = g.counted
        BY <1>5, <1>10
      <2> QED BY <2>1, <2>2, <2>4, <2>5, <2>6, <2>7, StaysGood
    <1>13. /\ \A q \in PageNumbers \ {p} : View(dbFile, w)[q] = e[q]
           /\ View(dbFile, w)[p] = w.cache[p]
      <2>1. \A q \in DOMAIN g.cache \ {p} : w.cache[q] = g.cache[q]
        BY <1>8, <1>10
      <2>2. w.dbSize = g.dbSize /\ w.inJournal = g.inJournal
        BY <1>5, <1>10
      <2> QED BY <2>1, <2>2, <1>11, <1>12, ViewOfOther
    <1>14. w.cache[p] = x
      BY <1>8, <1>10
    <1>15. SameFields(g, w) /\ w.inJournal = g.inJournal /\ w.stmt.marked = g.stmt.marked
      BY <1>5, <1>10 DEF SameFields
    <1> QED BY <1>2, <1>7, <1>11, <1>12, <1>13, <1>14, <1>15 DEF Releases

LEMMA DontRollbackEffect ==
    ASSUME NEW g, GoodPager(g), GoodFile(dbFile), NEW p \in PageNumbers,
           NEW e, e = View(dbFile, g), NEW w, w = DontRollback(g, p)
    PROVE  /\ GoodPager(w)
           /\ DOMAIN w.cache = DOMAIN g.cache \cup {p}
           /\ Spares(g, e, p, w, View(dbFile, w))
    <1> DEFINE f == Fetched(g, p)
               b == f.cache[p].inJournal \/ p <= g.origDbSize
               x == [f.cache[p] EXCEPT !.inJournal = b]
               ca == [f.cache EXCEPT ![p] = x]
               ij == IF p <= g.origDbSize THEN g.inJournal \cup {p} ELSE g.inJournal
               st == IF g.stmt.inUse /\ p <= g.stmt.size
                     THEN [g.stmt EXCEPT !.marked = g.stmt.marked \cup {p}] ELSE g.stmt
    <1>1. f.cache[p] = e[p]
      BY ContentIs
    <1>4. /\ f \in PagersWith(f.cache)
          /\ f.cache \in [DOMAIN g.cache \cup {p} -> Entries]
          /\ \A q \in DOMAIN g.cache \cup {p} : f.cache[q] = EntryOf(dbFile, g, q)
      <2>1. DOMAIN f.cache = DOMAIN g.cache \cup {p}
        BY FetchedFacts
      <2>2. \A q \in DOMAIN f.cache : f.cache[q] = EntryOf(dbFile, g, q)
        BY FetchedFacts
      <2> QED BY <2>1, <2>2, FetchedFacts
    <1>5. /\ f.state = g.state /\ f.dbSize = g.dbSize /\ f.origDbSize = g.origDbSize
          /\ f.alwaysRollback = g.alwaysRollback /\ f.journal = g.journal
          /\ f.inJournal = g.inJournal /\ f.stmt = g.stmt /\ f.counted = g.counted
      BY FetchedFacts
    <1>6. e[p] \in Entries
      BY ViewType
    <1>b. DOMAIN g.cache \subseteq PageNumbers
      BY DEF GoodPager
    <1>c. \A q \in DOMAIN g.cache : EntryOf(dbFile, g, q) = g.cache[q]
      BY DEF EntryOf
    <1>d. g.dbSize \in Nat /\ Len(g.journal) \in Nat /\ g.stmt \in Statements
          /\ g.inJournal \subseteq PageNumbers /\ g.origDbSize \in Nat /\ g.stmt.size \in Nat
      BY PagerFields
    <1>e. /\ g.inJournal \subseteq 1..g.origDbSize
          /\ g.stmt.inUse => g.stmt.marked \subseteq 1..g.stmt.size
      BY DEF GoodPager
    <1>2. CASE g.state # "exclusive" \/ e[p].alwaysRollback \/ g.alwaysRollback
      <2> HIDE DEF f
      <2>1. w = f
        BY <1>1, <1>2 DEF DontRollback, f
      <2>2. DOMAIN w.cache = DOMAIN g.cache \cup {p}
        BY <2>1, <1>4
      <2>3. GoodPager(w)
        <3>1. w \in PagersWith(w.cache)
          BY <2>1, <1>4
        <3>2. w.cache \in [DOMAIN w.cache -> Entries]
          BY <2>1, <2>2, <1>4
        <3>3. DOMAIN w.cache \subseteq PageNumbers
          BY <2>2, <1>b
        <3>4. g.dbSize <= w.dbSize /\ Len(g.journal) <= Len(w.journal)
          BY <2>1, <1>5, <1>d
        <3>5. /\ w.origDbSize = g.origDbSize /\ w.stmt.inUse = g.stmt.inUse
              /\ w.stmt.size = g.stmt.size /\ w.stmt.skip = g.stmt.skip
              /\ w.inJournal = g.inJournal /\ w.stmt.marked = g.stmt.marked
              /\ w.counted = g.counted
          BY <2>1, <1>5
        <3> QED BY <3>1, <3>2, <3>3, <3>4, <3>5, <1>e, StaysGood
      <2>4. \A q \in DOMAIN g.cache \ {p} : w.cache[q] = g.cache[q]
        BY <2>1, <1>4, <1>c
      <2>5. w.dbSize = g.dbSize /\ w.inJournal = g.inJournal /\ w.stmt.marked = g.stmt.marked
        BY <2>1, <1>5
      <2>6. /\ \A q \in PageNumbers \ {p} : View(dbFile, w)[q] = e[q]
            /\ View(dbFile, w)[p] = w.cache[p]
        BY <2>2, <2>3, <2>4, <2>5, ViewOfOther
      <2>7. View(dbFile, w)[p] = e[p]
        BY <2>1, <2>6, <1>1
      <2>8. SameFields(g, w)
        BY <2>1, <1>5 DEF SameFields
      <2> QED BY <2>2, <2>3, <2>5, <2>6, <2>7, <2>8 DEF Spares
    <1>3. CASE ~(g.state # "exclusive" \/ e[p].alwaysRollback \/ g.alwaysRollback)
      <2>1. w = [f EXCEPT !.cache = ca, !.inJournal = ij, !.stmt = st]
        BY <1>1, <1>3 DEF DontRollback
      <2>2. /\ x \in Entries /\ x.content = e[p].content /\ x.dirty = e[p].dirty
            /\ x.alwaysRollback = e[p].alwaysRollback /\ x.needSync = e[p].needSync
            /\ (x.inJournal <=> e[p].inJournal \/ p <= g.origDbSize)
        <3>1. b \in BOOLEAN /\ (b <=> e[p].inJournal \/ p <= g.origDbSize)
          BY <1>1
        <3> HIDE DEF b
        <3> QED BY <3>1, <1>1, <1>6 DEF Entries
      <2>3. /\ ca \in [DOMAIN g.cache \cup {p} -> Entries]
            /\ \A q \in DOMAIN g.cache \ {p} : ca[q] = g.cache[q]
            /\ ca[p] = x
        <3> HIDE DEF x
        <3> QED BY <1>4, <2>2, <1>c
      <2>4. /\ st \in Statements
            /\ st.inUse = g.stmt.inUse /\ st.size = g.stmt.size /\ st.skip = g.stmt.skip
            /\ st.saved = g.stmt.saved
            /\ st.marked = IF g.stmt.inUse /\ p <= g.stmt.size THEN g.stmt.marked \cup {p}
                           ELSE g.stmt.marked
        BY <1>d DEF Statements
      <2>5. ij \in SUBSET PageNumbers
        BY <1>d
      <2> HIDE DEF f, x, ca, ij, st
      <2>6. w \in PagersWith(ca)
        BY <2>1, <2>3, <2>4, <2>5, <1>4 DEF PagersWith
      <2>7. /\ w.cache = ca /\ w.journal = f.journal /\ w.inJournal = ij
            /\ w.stmt = st /\ w.dbSize = f.dbSize
            /\ w.state = f.state /\ w.origDbSize = f.origDbSize
            /\ w.alwaysRollback = f.alwaysRollback /\ w.counted = f.counted
        BY <2>1, <1>4 DEF PagersWith
      <2>8. DOMAIN w.cache = DOMAIN g.cache \cup {p}
        BY <2>3, <2>7
      <2>9. w.inJournal = IF p <= g.origDbSize THEN g.inJournal \cup {p} ELSE g.inJournal
        BY <2>7 DEF ij
      <2>10. SameFields(g, w)
        BY <2>4, <2>7, <1>5 DEF SameFields
      <2>11. w.stmt.marked = IF g.stmt.inUse /\ p <= g.stmt.size THEN g.stmt.marked \cup {p}
                             ELSE g.stmt.marked
        BY <2>4, <2>7
      <2>12. GoodPager(w)
        <3>1. w \in PagersWith(w.cache)
          BY <2>6, <2>7
        <3>2. w.cache \in [DOMAIN w.cache -> Entries]
          BY <2>3, <2>7, <2>8
        <3>3. DOMAIN w.cache \subseteq PageNumbers
          BY <2>8, <1>b
        <3>4. g.dbSize <= w.dbSize /\ Len(g.journal) <= Len(w.journal)
          BY <2>7, <1>5, <1>d
        <3>5. w.inJournal \subseteq 1..g.origDbSize
          <4>1. p <= g.origDbSize => p \in 1..g.origDbSize
            BY <1>d, InRange
          <4> QED BY <4>1, <2>9, <1>e
        <3>6. g.stmt.inUse => w.stmt.marked \subseteq 1..g.stmt.size
          <4>1. p <= g.stmt.size => p \in 1..g.stmt.size
            BY <1>d, InRange
          <4> QED BY <4>1, <2>11, <1>e
        <3> QED BY <3>1, <3>2, <3>3, <3>4, <3>5, <3>6, <2>10, StaysGood DEF SameFields
      <2>13. \A q \in DOMAIN g.cache \ {p} : w.cache[q] = g.cache[q]
        BY <2>3, <2>7
      <2>14. /\ \A q \in PageNumbers \ {p} : View(dbFile, w)[q] = e[q]
             /\ View(dbFile, w)[p] = w.cache[p]
        <3>1. \A q \in PageNumbers \ {p} : q \in w.inJournal <=> q \in g.inJournal
          BY <2>9
        <3>2. w.dbSize = g.dbSize
          BY <2>10 DEF SameFields
        <3> QED BY <3>1, <3>2, <2>8, <2>12, <2>13, ViewOfOther
      <2>15. View(dbFile, w)[p] = x
        BY <2>14, <2>3, <2>7
      <2>16. ~e[p].alwaysRollback /\ ~g.alwaysRollback /\ g.state = "exclusive"
        BY <1>3
      <2> QED BY <2>2, <2>8, <2>9, <2>10, <2>11, <2>12, <2>14, <2>15, <2>16 DEF Spares
    <1> QED BY <1>2, <1>3

-----------------------------------------------------------------------------
\* Records that are added to a journal.
LEMMA AddedRecord ==
    ASSUME NEW recs \in Seq(Records), NEW r \in Records
    PROVE  /\ Recorded(Append(recs, r)) = Recorded(recs) \cup {r.page}
           /\ \A k \in 0..Len(recs) :
                 /\ RecordedFrom(Append(recs, r), k) = RecordedFrom(recs, k) \cup {r.page}
                 /\ Has(Append(recs, r), k, r.page, r.content)
           /\ \A k \in Nat : \A p, c : Has(recs, k, p, c) => Has(Append(recs, r), k, p, c)
           /\ Once(recs) /\ r.page \notin Recorded(recs) => Once(Append(recs, r))
    <1> DEFINE n == Len(recs)
               s == Append(recs, r)
    <1>1. /\ s \in Seq(Records) /\ Len(s) = n + 1 /\ s[n + 1] = r
          /\ \A i \in 1..n : s[i] = recs[i]
      BY AppendProperties
    <1>2. n \in Nat
      BY LenProperties
    <1> HIDE DEF n, s
    <1>3. \A i \in 1..n + 1 : i \in 1..n \/ i = n + 1
      BY <1>2
    <1>4. \A i \in 1..n : i \in 1..n + 1
      BY <1>2
    <1>5. n + 1 \in 1..n + 1
      BY <1>2
    <1>6. Recorded(s) = Recorded(recs) \cup {r.page}
      BY <1>1, <1>3, <1>4, <1>5 DEF Recorded, n
    <1>7. ASSUME NEW k \in 0..n
          PROVE  /\ RecordedFrom(s, k) = RecordedFrom(recs, k) \cup {r.page}
                 /\ Has(s, k, r.page, r.content)
      <2>1. \A i \in k + 1..n + 1 : i \in k + 1..n \/ i = n + 1
        BY <1>2
      <2>2. n + 1 \in k + 1..n + 1
        BY <1>2
      <2>3. \A i \in k + 1..n : i \in k + 1..n + 1 /\ i \in 1..n
        BY <1>2
      <2>4. RecordedFrom(s, k) = {s[i].page : i \in k + 1..n + 1}
        BY <1>1 DEF RecordedFrom
      <2>5. RecordedFrom(recs, k) = {recs[i].page : i \in k + 1..n}
        BY DEF RecordedFrom, n
      <2>6. RecordedFrom(s, k) = RecordedFrom(recs, k) \cup {r.page}
        BY <2>1, <2>2, <2>3, <2>4, <2>5, <1>1
      <2>7. Has(s, k, r.page, r.content)
        BY <2>2, <1>1 DEF Has
      <2> QED BY <2>6, <2>7
    <1>8. ASSUME NEW k \in Nat, NEW p, NEW c, Has(recs, k, p, c)
          PROVE  Has(s, k, p, c)
      <2>1. PICK i \in k + 1..n : recs[i].page = p /\ recs[i].content = c
        BY <1>8 DEF Has, n
      <2>2. i \in 1..n /\ i \in k + 1..n + 1
        BY <1>2
      <2> QED BY <2>1, <2>2, <1>1 DEF Has
    <1>9. ASSUME Once(recs), r.page \notin Recorded(recs)
          PROVE  Once(s)
      <2>1. \A i \in 1..n : recs[i].page # r.page
        BY <1>9 DEF Recorded, n
      <2>2. \A i, j \in 1..n : recs[i].page = recs[j].page => i = j
        BY <1>9 DEF Once, n
      <2> SUFFICES ASSUME NEW i \in 1..n + 1, NEW j \in 1..n + 1, s[i].page = s[j].page
                   PROVE  i = j
        BY <1>1 DEF Once
      <2>3. CASE i \in 1..n /\ j \in 1..n
        BY <2>2, <2>3, <1>1
      <2>4. CASE i = n + 1 /\ j \in 1..n
        BY <2>1, <2>4, <1>1
      <2>5. CASE i \in 1..n /\ j = n + 1
        BY <2>1, <2>5, <1>1
      <2> QED BY <2>3, <2>4, <2>5, <1>3
    <1> QED BY <1>6, <1>7, <1>8, <1>9 DEF n, s

\* sqlite3pager_write keeps the bitmaps and the journals in step.
LEMMA WriteMarks ==
    ASSUME NEW g, GoodPager(g), NEW g2, GoodPager(g2), NEW p \in PageNumbers, NEW c,
           NEW e \in [PageNumbers -> Entries], NEW e2, Writes(g, e, p, c, g2, e2), Marks(g, e)
    PROVE  Marks(g2, e2)
    <1>1. /\ g.dbSize \in Nat /\ g.origDbSize \in Nat /\ p \in Nat /\ g.journal \in Seq(Records)
          /\ p >= 1
      BY PagerFields, PageNumber
    <1>2. Before(e, p) \in Records /\ Before(e, p).page = p
      BY DEF Before, Records, Entries
    <1>3. /\ Recorded(g.journal) \subseteq g.inJournal
          /\ Once(g.journal)
          /\ \A q \in PageNumbers : q <= g.origDbSize => (e[q].inJournal <=> q \in g.inJournal)
          /\ \A q \in PageNumbers : q > g.dbSize => ~e[q].inJournal /\ ~e[q].dirty
      BY DEF Marks
    <1>4. /\ e2[p].inJournal
          /\ \A q \in PageNumbers \ {p} : e2[q] = e[q]
          /\ g2.origDbSize = g.origDbSize
          /\ g2.dbSize = IF p > g.dbSize THEN p ELSE g.dbSize
      BY DEF Writes
    <1>5. \A q \in PageNumbers : q > g2.dbSize => ~e2[q].inJournal /\ ~e2[q].dirty
      <2> SUFFICES ASSUME NEW q \in PageNumbers, q > g2.dbSize
                   PROVE  ~e2[q].inJournal /\ ~e2[q].dirty
        OBVIOUS
      <2>1. q \in Nat
        BY PageNumber
      <2>2. q # p /\ q > g.dbSize
        BY <2>1, <1>1, <1>4
      <2> QED BY <2>2, <1>3, <1>4
    <1>6. CASE Journaled(g, e, p)
      <2>1. g2.journal = Append(g.journal, Before(e, p)) /\ g2.inJournal = g.inJournal \cup {p}
        BY <1>6 DEF Writes
      <2>2. p \notin g.inJournal
        BY <1>3, <1>6 DEF Journaled
      <2>3. Recorded(g2.journal) = Recorded(g.journal) \cup {p} /\ Once(g2.journal)
        <3>1. p \notin Recorded(g.journal)
          BY <2>2, <1>3
        <3> DEFINE r == Before(e, p)
                   s == Append(g.journal, r)
        <3>2. r \in Records /\ r.page = p
          BY <1>2
        <3> HIDE DEF r
        <3>3. Recorded(s) = Recorded(g.journal) \cup {r.page}
          BY <3>2, <1>1, AddedRecord
        <3>4. Once(s)
          BY <3>1, <3>2, <1>1, <1>3, AddedRecord
        <3> QED BY <3>2, <3>3, <3>4, <2>1 DEF r
      <2>4. \A q \in PageNumbers : q <= g.origDbSize => (e2[q].inJournal <=> q \in g2.inJournal)
        BY <2>1, <1>3, <1>4
      <2> QED BY <2>1, <2>3, <2>4, <1>3, <1>4, <1>5 DEF Marks
    <1>7. CASE ~Journaled(g, e, p)
      <2>1. g2.journal = g.journal /\ g2.inJournal = g.inJournal
        BY <1>7 DEF Writes
      <2>2. p <= g.origDbSize => e[p].inJournal
        BY <1>7 DEF Journaled
      <2>4. \A q \in PageNumbers : q <= g.origDbSize => (e2[q].inJournal <=> q \in g2.inJournal)
        BY <2>1, <2>2, <1>3, <1>4
      <2> QED BY <2>1, <2>4, <1>3, <1>4, <1>5 DEF Marks
    <1> QED BY <1>6, <1>7

\* The three ways to save page p, which holds x, for the statement.
JournalGrows(g, p, x, w) ==
    /\ w.stmt.saved = g.stmt.saved
    /\ RecordedFrom(w.journal, g.stmt.skip) = RecordedFrom(g.journal, g.stmt.skip) \cup {p}
    /\ w.stmt.marked = g.stmt.marked \cup {p}
    /\ p \notin g.inJournal /\ p <= g.origDbSize
    /\ Has(w.journal, g.stmt.skip, p, x)
SavedGrows(g, p, x, w) ==
    /\ Recorded(w.stmt.saved) = Recorded(g.stmt.saved) \cup {p}
    /\ p \notin Recorded(g.stmt.saved) /\ Once(g.stmt.saved) => Once(w.stmt.saved)
    /\ w.journal = g.journal
    /\ w.stmt.marked = g.stmt.marked \cup {p}
    /\ p \notin g.stmt.marked /\ (p <= g.origDbSize => p \in g.inJournal)
    /\ Has(w.stmt.saved, 0, p, x)
NothingGrows(g, p, w) ==
    /\ w.stmt.saved = g.stmt.saved /\ w.journal = g.journal
    /\ w.stmt.marked = g.stmt.marked
    /\ p \in g.stmt.marked \/ p > g.stmt.size

\* What a statement has of page p after sqlite3pager_write.
LEMMA WriteRecords ==
    ASSUME NEW g, GoodPager(g), NEW g2, GoodPager(g2), NEW p \in PageNumbers, NEW c,
           NEW e \in [PageNumbers -> Entries], NEW e2, Writes(g, e, p, c, g2, e2), Marks(g, e),
           g.stmt.inUse
    PROVE  /\ g2.stmt.inUse /\ g2.origDbSize = g.origDbSize /\ g2.stmt.skip = g.stmt.skip
           /\ g2.stmt.size = g.stmt.size /\ g.inJournal \subseteq g2.inJournal
           /\ \/ JournalGrows(g, p, e[p].content, g2)
              \/ SavedGrows(g, p, e[p].content, g2)
              \/ NothingGrows(g, p, g2)
           /\ \A q, x : Has(g.journal, g.stmt.skip, q, x) => Has(g2.journal, g.stmt.skip, q, x)
           /\ \A q, x : Has(g.stmt.saved, 0, q, x) => Has(g2.stmt.saved, 0, q, x)
    <1> DEFINE r == Before(e, p)
    <1>1. /\ g.origDbSize \in Nat /\ p \in Nat /\ g.stmt.size \in Nat /\ g.stmt.skip \in Nat
          /\ g.journal \in Seq(Records) /\ g.stmt.saved \in Seq(Records)
          /\ Len(g.journal) \in Nat
      BY PagerFields, PageNumber
    <1>2. r \in Records /\ r.page = p /\ r.content = e[p].content
      BY DEF Before, Records, Entries
    <1> HIDE DEF r
    <1>3. g.stmt.skip <= Len(g.journal)
      BY DEF GoodPager
    <1>4. g.stmt.skip \in 0..Len(g.journal)
      BY <1>1, <1>3
    <1>5. p <= g.origDbSize => (e[p].inJournal <=> p \in g.inJournal)
      BY DEF Marks
    <1>6. /\ g2.stmt.inUse /\ g2.origDbSize = g.origDbSize /\ g2.stmt.skip = g.stmt.skip
          /\ g2.stmt.size = g.stmt.size /\ g.inJournal \subseteq g2.inJournal
      BY DEF Writes
    <1>7. CASE Journaled(g, e, p)
      <2>1. ~SavedNow(g, e, p) /\ Marked(g, e, p)
        BY <1>7 DEF SavedNow, Marked
      <2>2. /\ g2.journal = Append(g.journal, r) /\ g2.stmt.saved = g.stmt.saved
            /\ g2.stmt.marked = g.stmt.marked \cup {p}
        BY <2>1, <1>7 DEF Writes, r
      <2>3. p \notin g.inJournal /\ p <= g.origDbSize
        BY <1>5, <1>7 DEF Journaled
      <2>4. RecordedFrom(Append(g.journal, r), g.stmt.skip)
            = RecordedFrom(g.journal, g.stmt.skip) \cup {r.page}
        BY <1>1, <1>2, <1>4, AddedRecord
      <2>5. Has(Append(g.journal, r), g.stmt.skip, r.page, r.content)
        BY <1>1, <1>2, <1>4, AddedRecord
      <2>6. \A q, x : Has(g.journal, g.stmt.skip, q, x)
                      => Has(Append(g.journal, r), g.stmt.skip, q, x)
        BY <1>1, <1>2, AddedRecord
      <2>8. JournalGrows(g, p, e[p].content, g2)
        BY <2>2, <2>3, <2>4, <2>5, <1>2, <1>6 DEF JournalGrows
      <2> QED BY <2>2, <2>6, <2>8, <1>6
    <1>8. CASE ~Journaled(g, e, p) /\ SavedNow(g, e, p)
      <2>1. Marked(g, e, p)
        BY <1>8 DEF Marked
      <2>2. /\ g2.journal = g.journal /\ g2.stmt.saved = Append(g.stmt.saved, r)
            /\ g2.stmt.marked = g.stmt.marked \cup {p}
        BY <2>1, <1>8 DEF Writes, r
      <2>3. p \notin g.stmt.marked /\ (p <= g.origDbSize => p \in g.inJournal)
        BY <1>5, <1>8 DEF Journaled, SavedNow
      <2>4. Recorded(Append(g.stmt.saved, r)) = Recorded(g.stmt.saved) \cup {r.page}
        BY <1>1, <1>2, AddedRecord
      <2>5. Has(Append(g.stmt.saved, r), 0, r.page, r.content)
        <3>1. Len(g.stmt.saved) \in Nat
          BY <1>1, LenProperties
        <3>2. 0 \in 0..Len(g.stmt.saved)
          BY <3>1
        <3> QED BY <3>2, <1>1, <1>2, AddedRecord
      <2>6. \A q, x : Has(g.stmt.saved, 0, q, x) => Has(Append(g.stmt.saved, r), 0, q, x)
        <3>1. 0 \in Nat
          OBVIOUS
        <3> QED BY <3>1, <1>1, <1>2, AddedRecord
      <2>7. r.page \notin Recorded(g.stmt.saved) /\ Once(g.stmt.saved)
            => Once(Append(g.stmt.saved, r))
        BY <1>1, <1>2, AddedRecord
      <2>8. SavedGrows(g, p, e[p].content, g2)
        BY <2>2, <2>3, <2>4, <2>5, <2>7, <1>2 DEF SavedGrows
      <2> QED BY <2>2, <2>6, <2>8, <1>6
    <1>9. CASE ~Journaled(g, e, p) /\ ~SavedNow(g, e, p)
      <2>1. ~Marked(g, e, p)
        BY <1>9 DEF Marked
      <2>2. /\ g2.journal = g.journal /\ g2.stmt.saved = g.stmt.saved
            /\ g2.stmt.marked = g.stmt.marked
        BY <2>1, <1>9 DEF Writes
      <2>3. p \in g.stmt.marked \/ p > g.stmt.size
        BY <1>1, <1>9 DEF SavedNow
      <2>4. NothingGrows(g, p, g2)
        BY <2>2, <2>3 DEF NothingGrows
      <2> QED BY <2>2, <2>4, <1>6
    <1> QED BY <1>7, <1>8, <1>9

LEMMA WriteStmtMarks ==
    ASSUME NEW g, GoodPager(g), NEW g2, GoodPager(g2), NEW p \in PageNumbers, NEW c,
           NEW e \in [PageNumbers -> Entries], NEW e2, Writes(g, e, p, c, g2, e2), Marks(g, e),
           g.stmt.inUse, StmtMarks(g)
    PROVE  StmtMarks(g2)
    <1> DEFINE S == Recorded(g.stmt.saved)
               J == RecordedFrom(g.journal, g.stmt.skip)
    <1>1. /\ S \subseteq g.stmt.marked /\ J \subseteq g.stmt.marked
          /\ S \cap (1..g.origDbSize) \subseteq g.inJournal
          /\ Once(g.stmt.saved) /\ S \cap J = {}
      BY DEF StmtMarks, InStmt
    <1>2. /\ g2.origDbSize = g.origDbSize /\ g2.stmt.skip = g.stmt.skip
          /\ g.inJournal \subseteq g2.inJournal
      BY WriteRecords
    <1>3. g.origDbSize \in Nat /\ p \in Nat /\ p >= 1
      BY PagerFields, PageNumber
    <1>4. CASE JournalGrows(g, p, e[p].content, g2)
      <2>1. /\ g2.stmt.saved = g.stmt.saved
            /\ RecordedFrom(g2.journal, g2.stmt.skip) = J \cup {p}
            /\ g2.stmt.marked = g.stmt.marked \cup {p}
            /\ p \notin g.inJournal /\ p <= g.origDbSize
        BY <1>2, <1>4 DEF JournalGrows
      <2>2. p \notin S
        <3>1. p \in 1..g.origDbSize
          BY <1>3, <2>1
        <3> QED BY <3>1, <1>1, <2>1
      <2> HIDE DEF J
      <2> QED BY <2>1, <2>2, <1>1, <1>2 DEF StmtMarks, InStmt
    <1>5. CASE SavedGrows(g, p, e[p].content, g2)
      <2>1. /\ Recorded(g2.stmt.saved) = S \cup {p}
            /\ p \notin S /\ Once(g.stmt.saved) => Once(g2.stmt.saved)
            /\ RecordedFrom(g2.journal, g2.stmt.skip) = J
            /\ g2.stmt.marked = g.stmt.marked \cup {p}
            /\ p \notin g.stmt.marked /\ (p <= g.origDbSize => p \in g.inJournal)
        BY <1>2, <1>5 DEF SavedGrows
      <2>2. p \notin S /\ p \notin J
        BY <1>1, <2>1
      <2>3. p \in 1..g.origDbSize => p \in g.inJournal
        BY <1>3, <2>1
      <2> HIDE DEF J, S
      <2> QED BY <2>1, <2>2, <2>3, <1>1, <1>2 DEF StmtMarks, InStmt
    <1>6. CASE NothingGrows(g, p, g2)
      BY <1>1, <1>2, <1>6 DEF StmtMarks, InStmt, NothingGrows
    <1>7. \/ JournalGrows(g, p, e[p].content, g2) \/ SavedGrows(g, p, e[p].content, g2)
          \/ NothingGrows(g, p, g2)
      BY WriteRecords
    <1> QED BY <1>4, <1>5, <1>6, <1>7

\* ... and what the pages held.
LEMMA WriteSizes ==
    ASSUME NEW g, GoodPager(g), NEW f, GoodFile(f), NEW g2, NEW p \in PageNumbers, NEW c,
           NEW e, NEW e2, Writes(g, e, p, c, g2, e2), Sizes(f, g, e)
    PROVE  Sizes(f, g2, e2)
    <1>1. g.dbSize \in PageNumbers /\ g.dbSize \in Nat /\ p \in Nat /\ Len(f) \in Nat
      BY PagerFields, PageNumber DEF GoodFile
    <1>2. /\ g2.state = g.state /\ g2.origDbSize = g.origDbSize
          /\ g2.dbSize = IF p > g.dbSize THEN p ELSE g.dbSize
          /\ e2[p].dirty /\ \A q \in PageNumbers \ {p} : e2[q] = e[q]
      BY DEF Writes
    <1>3. /\ Len(f) <= g.dbSize
          /\ g.dbSize <= Len(f) \/ e[g.dbSize].dirty
          /\ g.origDbSize <= Len(f)
      BY DEF Sizes
    <1>4. Len(f) <= g2.dbSize
      BY <1>1, <1>2, <1>3
    <1>5. g2.dbSize <= Len(f) \/ e2[g2.dbSize].dirty
      <2>1. CASE g2.dbSize = p
        BY <2>1, <1>2
      <2>2. CASE g2.dbSize # p
        <3>1. g2.dbSize = g.dbSize /\ g.dbSize \in PageNumbers \ {p}
          BY <2>2, <1>1, <1>2
        <3> QED BY <3>1, <1>2, <1>3
      <2> QED BY <2>1, <2>2
    <1> QED BY <1>2, <1>3, <1>4, <1>5 DEF Sizes

LEMMA WriteNow ==
    ASSUME NEW g, GoodPager(g), NEW f, NEW g2, NEW p \in PageNumbers, NEW c,
           NEW e, NEW e2, Writes(g, e, p, c, g2, e2), NEW h \in SUBSET PageNumbers,
           NowKept(f, g, e, h)
    PROVE  NowKept(f, g2, e2, h \cup {p})
    <1>1. g.dbSize \in Nat /\ \A q \in PageNumbers : q \in Nat
      BY PagerFields, PageNumber
    <1>2. /\ g2.dbSize = IF p > g.dbSize THEN p ELSE g.dbSize
          /\ e2[p].dirty /\ \A q \in PageNumbers \ {p} : e2[q] = e[q]
      BY DEF Writes
    <1> SUFFICES ASSUME NEW q \in h \cup {p}
                 PROVE  q <= g2.dbSize /\ (~e2[q].dirty => At(f, q) = e2[q].content)
      BY DEF NowKept
    <1>3. q \in PageNumbers /\ q \in Nat /\ p \in Nat
      BY <1>1
    <1>4. CASE q = p
      BY <1>1, <1>2, <1>3, <1>4
    <1>5. CASE q # p
      <2>1. q <= g.dbSize /\ (~e[q].dirty => At(f, q) = e[q].content)
        BY <1>5 DEF NowKept
      <2>2. q <= g2.dbSize
        BY <2>1, <1>1, <1>2, <1>3
      <2> QED BY <2>1, <2>2, <1>2, <1>3, <1>5
    <1> QED BY <1>4, <1>5

LEMMA WriteFlagged ==
    ASSUME NEW g, NEW g2, NEW p \in PageNumbers, NEW c, NEW e, NEW e2,
           Writes(g, e, p, c, g2, e2), NEW h \in SUBSET PageNumbers, Flagged(g, e, h)
    PROVE  Flagged(g2, e2, h)
    <1>1. /\ g2.alwaysRollback = g.alwaysRollback
          /\ e2[p].alwaysRollback = e[p].alwaysRollback
          /\ \A q \in PageNumbers \ {p} : e2[q] = e[q]
      BY DEF Writes
    <1> QED BY <1>1 DEF Flagged

LEMMA WriteTrans ==
    ASSUME NEW g, GoodPager(g), NEW f, NEW g2, NEW p \in PageNumbers, NEW c,
           NEW e \in [PageNumbers -> Entries], NEW e2, Writes(g, e, p, c, g2, e2), Marks(g, e),
           NEW h \in SUBSET PageNumbers, NEW old, NEW d, TransKept(f, g, e, h, old, d)
    PROVE  TransKept(f, g2, e2, h, old, d)
    <1> DEFINE r == Before(e, p)
    <1>1. g.journal \in Seq(Records) /\ Len(g.journal) \in Nat
      BY PagerFields
    <1>2. r \in Records /\ r.page = p /\ r.content = e[p].content
      BY DEF Before, Records, Entries
    <1>3. /\ g2.state = g.state /\ g2.origDbSize = g.origDbSize
          /\ e2[p].dirty /\ \A q \in PageNumbers \ {p} : e2[q] = e[q]
          /\ g2.journal = IF Journaled(g, e, p) THEN Append(g.journal, r) ELSE g.journal
          /\ g2.inJournal = IF Journaled(g, e, p) THEN g.inJournal \cup {p} ELSE g.inJournal
      BY DEF Writes
    <1> HIDE DEF r
    <1>4. Has(Append(g.journal, r), 0, r.page, r.content)
      <2>1. 0 \in 0..Len(g.journal)
        BY <1>1
      <2> QED BY <2>1, <1>1, <1>2, AddedRecord
    <1>5. \A q, x : Has(g.journal, 0, q, x) => Has(Append(g.journal, r), 0, q, x)
      <2>1. 0 \in Nat
        OBVIOUS
      <2> QED BY <2>1, <1>1, <1>2, AddedRecord
    <1>6. \A q, x : Has(g.journal, 0, q, x) => Has(g2.journal, 0, q, x)
      BY <1>3, <1>5
    <1> SUFFICES ASSUME NEW q \in h
                 PROVE  /\ q <= g2.origDbSize
                        /\ g2.state = "reserved" => At(f, q) = old[q]
                        /\ q \in g2.inJournal => Has(g2.journal, 0, q, old[q])
                        /\ q \in g2.inJournal /\ g2.state = "reserved" => e2[q].dirty \/ q \in d
                        /\ q \notin g2.inJournal => /\ At(f, q) = old[q] /\ ~e2[q].dirty
                                                    /\ e2[q].content = old[q]
      BY DEF TransKept
    <1>7. /\ q <= g.origDbSize
          /\ g.state = "reserved" => At(f, q) = old[q]
          /\ q \in g.inJournal => Has(g.journal, 0, q, old[q])
          /\ q \in g.inJournal /\ g.state = "reserved" => e[q].dirty \/ q \in d
          /\ q \notin g.inJournal => At(f, q) = old[q] /\ ~e[q].dirty /\ e[q].content = old[q]
      BY DEF TransKept
    <1>8. CASE q = p
      <2>1. p \in g2.inJournal
        <3>1. CASE Journaled(g, e, p)
          BY <3>1, <1>3
        <3>2. CASE ~Journaled(g, e, p)
          <4>1. e[p].inJournal
            BY <3>2, <1>7, <1>8 DEF Journaled
          <4>2. p \in g.inJournal
            BY <4>1, <1>7, <1>8 DEF Marks
          <4> QED BY <4>2, <3>2, <1>3
        <3> QED BY <3>1, <3>2
      <2>2. Has(g2.journal, 0, p, old[p])
        <3>1. CASE p \in g.inJournal
          BY <3>1, <1>6, <1>7, <1>8
        <3>2. CASE p \notin g.inJournal
          <4>1. e[p].content = old[p]
            BY <3>2, <1>7, <1>8
          <4>2. Journaled(g, e, p)
            BY <3>2, <2>1, <1>3
          <4>3. g2.journal = Append(g.journal, r)
            BY <4>2, <1>3
          <4> QED BY <4>1, <4>3, <1>2, <1>4
        <3> QED BY <3>1, <3>2
      <2> QED BY <2>1, <2>2, <1>3, <1>7, <1>8
    <1>9. CASE q # p
      <2>1. q \in g2.inJournal <=> q \in g.inJournal
        BY <1>3, <1>9
      <2>2. e2[q] = e[q]
        BY <1>3, <1>9
      <2> QED BY <2>1, <2>2, <1>3, <1>6, <1>7
    <1> QED BY <1>8, <1>9

\* What is recorded after some records is recorded.
LEMMA FromRecorded ==
    ASSUME NEW recs \in Seq(Records), NEW k \in Nat
    PROVE  RecordedFrom(recs, k) \subseteq Recorded(recs)
    <1>1. Len(recs) \in Nat
      BY LenProperties
    <1>2. \A i \in k + 1..Len(recs) : i \in 1..Len(recs)
      <2> DEFINE n == Len(recs)
      <2>1. n \in Nat
        BY <1>1
      <2> HIDE DEF n
      <2>2. \A i \in k + 1..n : i \in 1..n
        BY <2>1
      <2> QED BY <2>2 DEF n
    <1> QED BY <1>2 DEF RecordedFrom, Recorded

\* The page of a new record waits, and has not been written.
LEMMA WriteWaits ==
    ASSUME NEW g, GoodPager(g), NEW f, NEW g2, NEW p \in PageNumbers, NEW c,
           NEW e \in [PageNumbers -> Entries], NEW e2, Writes(g, e, p, c, g2, e2), Marks(g, e),
           NEW h \in SUBSET PageNumbers, NEW old, NEW d, TransKept(f, g, e, h, old, d),
           NEW ea, WaitKept(f, g, e, h, old, ea)
    PROVE  WaitKept(f, g2, e2, h, old, ea)
    <1> DEFINE r == Before(e, p)
    <1>1. /\ g.journal \in Seq(Records) /\ Len(g.journal) \in Nat
          /\ g.counted \in Nat /\ g.counted <= Len(g.journal)
      BY PagerFields DEF GoodPager
    <1>2. r \in Records /\ r.page = p
      BY DEF Before, Records, Entries
    <1>3. /\ \A q \in PageNumbers \ {p} : e2[q] = e[q]
          /\ e2[p].needSync = (IF e[p].inJournal THEN e[p].needSync
                               ELSE p <= g.origDbSize \/ ~g.started)
          /\ g2.journal = IF Journaled(g, e, p) THEN Append(g.journal, r) ELSE g.journal
          /\ g2.counted = g.counted
      BY DEF Writes
    <1> HIDE DEF r
    <1>4. RecordedFrom(Append(g.journal, r), g.counted)
          = RecordedFrom(g.journal, g.counted) \cup {p}
      <2>1. g.counted \in 0..Len(g.journal)
        BY <1>1
      <2> QED BY <2>1, <1>1, <1>2, AddedRecord
    <1> SUFFICES ASSUME NEW q \in h \ ea, q \in RecordedFrom(g2.journal, g2.counted)
                 PROVE  At(f, q) = old[q] /\ e2[q].needSync
      BY DEF WaitKept
    <1>5. CASE q \in RecordedFrom(g.journal, g.counted)
      <2>1. At(f, q) = old[q] /\ e[q].needSync
        BY <1>5 DEF WaitKept
      <2>2. q = p => e[p].inJournal
        <3>1. q \in g.inJournal
          BY <1>1, <1>5, FromRecorded DEF Marks
        <3>2. q <= g.origDbSize
          BY DEF TransKept
        <3> QED BY <3>1, <3>2 DEF Marks
      <2> QED BY <2>1, <2>2, <1>3
    <1>6. CASE q \notin RecordedFrom(g.journal, g.counted)
      <2>1. Journaled(g, e, p) /\ q = p
        BY <1>3, <1>4, <1>6
      <2>2. ~e[p].inJournal /\ p <= g.origDbSize
        BY <2>1 DEF Journaled
      <2>3. p \notin g.inJournal
        BY <2>2 DEF Marks
      <2>4. At(f, q) = old[q]
        BY <2>1, <2>3 DEF TransKept
      <2> QED BY <2>1, <2>2, <2>4, <1>3
    <1> QED BY <1>5, <1>6

LEMMA WriteStmt ==
    ASSUME NEW g, GoodPager(g), NEW f, NEW g2, GoodPager(g2), NEW p \in PageNumbers, NEW c,
           NEW e \in [PageNumbers -> Entries], NEW e2, Writes(g, e, p, c, g2, e2), Marks(g, e),
           g.stmt.inUse, NEW h \in SUBSET PageNumbers, NEW mid, StmtKept(f, g, e, h, mid)
    PROVE  StmtKept(f, g2, e2, h, mid)
    <1> DEFINE S == Recorded(g.stmt.saved)
               J == RecordedFrom(g.journal, g.stmt.skip)
    <1>1. g.stmt.size \in Nat /\ \A q \in PageNumbers : q \in Nat
      BY PagerFields, PageNumber
    <1>2. /\ g2.stmt.skip = g.stmt.skip /\ g2.stmt.size = g.stmt.size
          /\ \A q, x : Has(g.journal, g.stmt.skip, q, x) => Has(g2.journal, g.stmt.skip, q, x)
          /\ \A q, x : Has(g.stmt.saved, 0, q, x) => Has(g2.stmt.saved, 0, q, x)
      BY WriteRecords
    <1>3. \/ JournalGrows(g, p, e[p].content, g2) \/ SavedGrows(g, p, e[p].content, g2)
          \/ NothingGrows(g, p, g2)
      BY WriteRecords
    <1>4. g2.state = g.state /\ e2[p].dirty /\ \A q \in PageNumbers \ {p} : e2[q] = e[q]
      BY DEF Writes
    <1>5. InStmt(g) = S \cup J
          /\ InStmt(g2) = Recorded(g2.stmt.saved) \cup RecordedFrom(g2.journal, g.stmt.skip)
      BY <1>2 DEF InStmt
    <1> HIDE DEF S, J
    <1>6. /\ InStmt(g) \subseteq InStmt(g2) /\ InStmt(g2) \subseteq InStmt(g) \cup {p}
          /\ g2.stmt.marked \subseteq g.stmt.marked \cup {p}
      <2>1. CASE JournalGrows(g, p, e[p].content, g2)
        BY <2>1, <1>5 DEF JournalGrows, S, J
      <2>2. CASE SavedGrows(g, p, e[p].content, g2)
        BY <2>2, <1>5 DEF SavedGrows, S, J
      <2>3. CASE NothingGrows(g, p, g2)
        BY <2>3, <1>5 DEF NothingGrows, S, J
      <2> QED BY <2>1, <2>2, <2>3, <1>3
    <1> SUFFICES ASSUME NEW q \in h
                 PROVE  /\ q <= g2.stmt.size
                        /\ q \in InStmt(g2) => \/ Has(g2.stmt.saved, 0, q, mid[q])
                                               \/ Has(g2.journal, g2.stmt.skip, q, mid[q])
                        /\ q \in InStmt(g2) /\ g2.state = "reserved" => e2[q].dirty
                        /\ q \notin InStmt(g2) => q \notin g2.stmt.marked /\ e2[q].content = mid[q]
                        /\ q \notin InStmt(g2) /\ ~e2[q].dirty => At(f, q) = mid[q]
      BY DEF StmtKept
    <1>7. /\ q <= g.stmt.size
          /\ q \in InStmt(g) => \/ Has(g.stmt.saved, 0, q, mid[q])
                                \/ Has(g.journal, g.stmt.skip, q, mid[q])
          /\ q \in InStmt(g) /\ g.state = "reserved" => e[q].dirty
          /\ q \notin InStmt(g) => q \notin g.stmt.marked /\ e[q].content = mid[q]
          /\ q \notin InStmt(g) /\ ~e[q].dirty => At(f, q) = mid[q]
      BY DEF StmtKept
    <1>8. CASE q = p
      <2>1. CASE p \in InStmt(g)
        BY <2>1, <1>2, <1>4, <1>6, <1>7, <1>8
      <2>2. CASE p \notin InStmt(g)
        <3>1. p \notin g.stmt.marked /\ ~(p > g.stmt.size) /\ e[p].content = mid[p]
          BY <2>2, <1>1, <1>7, <1>8
        <3>2. p \in InStmt(g2) /\ \/ Has(g2.stmt.saved, 0, p, mid[p])
                                  \/ Has(g2.journal, g2.stmt.skip, p, mid[p])
          <4>1. CASE JournalGrows(g, p, e[p].content, g2)
            BY <4>1, <3>1, <1>2, <1>5 DEF JournalGrows
          <4>2. CASE SavedGrows(g, p, e[p].content, g2)
            BY <4>2, <3>1, <1>5 DEF SavedGrows
          <4>3. CASE NothingGrows(g, p, g2)
            BY <4>3, <3>1 DEF NothingGrows
          <4> QED BY <4>1, <4>2, <4>3, <1>3
        <3> QED BY <3>2, <1>2, <1>4, <1>7, <1>8
      <2> QED BY <2>1, <2>2
    <1>9. CASE q # p
      <2>1. (q \in InStmt(g2) <=> q \in InStmt(g)) /\ (q \in g2.stmt.marked => q \in g.stmt.marked)
        BY <1>6, <1>9
      <2>2. e2[q] = e[q]
        BY <1>4, <1>9
      <2> QED BY <2>1, <2>2, <1>2, <1>4, <1>7
    <1> QED BY <1>8, <1>9

-----------------------------------------------------------------------------
\* What holds of a pager in a transaction.  It keeps pages h, with old in the
\* pages hb the transaction goes back to and mid in those of the statement, hs.
PagerGood(f, g, e, h, hb, hs, old, mid, d, s, ea) ==
    /\ GoodPager(g) /\ 1 \in DOMAIN g.cache /\ g.state # "shared"
    /\ Marks(g, e)
    /\ Sizes(f, g, e)
    /\ NowKept(f, g, e, h)
    /\ TransKept(f, g, e, hb, old, d)
    /\ WaitKept(f, g, e, hb, old, ea)
    /\ Flagged(g, e, hb \ h)
    /\ g.stmt.inUse => /\ StmtMarks(g)
                       /\ Flagged(g, e, (hb \cup hs) \ (h \cap hs))
                       /\ s \cap hs = {} => StmtKept(f, g, e, hs, mid)

With(c, p, x) == [c EXCEPT ![p] = x]
\* ... here and now.
GoodIn(g, h, hb, hs, old, mid, d, s, ea) ==
    /\ h \in SUBSET PageNumbers /\ hb \in SUBSET PageNumbers /\ hs \in SUBSET PageNumbers
    /\ PagerGood(dbFile, g, View(dbFile, g), h, hb, hs, old, mid, d, s, ea)

HeldBy(g) == [p \in PageNumbers |-> View(dbFile, g)[p].content]
Same(g, w) == /\ w.state = g.state /\ w.origDbSize = g.origDbSize
              /\ w.stmt.inUse = g.stmt.inUse /\ w.stmt.size = g.stmt.size

\* Writing c to page p makes w of g.
Writing(g, p, c, w, h, hb, hs, old, mid, d, s, ea) ==
    /\ GoodIn(w, h \cup {p}, hb, hs, old, mid, d, s, ea)
    /\ HeldBy(w) = With(HeldBy(g), p, c)
    /\ Same(g, w)
    /\ w.dbSize = IF p > g.dbSize THEN p ELSE g.dbSize
    /\ \A q \in PageNumbers \ {p} : View(dbFile, w)[q] = View(dbFile, g)[q]

\* sqlite3pager_write keeps it good,
LEMMA WrittenGood ==
    ASSUME GoodFile(dbFile), NEW g,
           NEW h, NEW hb, NEW hs, NEW old, NEW mid, NEW d, NEW s, NEW ea,
           GoodIn(g, h, hb, hs, old, mid, d, s, ea),
           NEW p \in PageNumbers, p <= g.dbSize + 1, NEW c \in AllContents
    PROVE  Writing(g, p, c, Written(g, p, c), h, hb, hs, old, mid, d, s, ea)
    <1> DEFINE e == View(dbFile, g)
               w == Written(g, p, c)
               e2 == View(dbFile, w)
    <1>0. PagerGood(dbFile, g, e, h, hb, hs, old, mid, d, s, ea)
      BY DEF GoodIn
    <1>s. h \in SUBSET PageNumbers /\ hb \in SUBSET PageNumbers /\ hs \in SUBSET PageNumbers
      BY DEF GoodIn
    <1> USE <1>s
    <1>1. /\ GoodPager(g) /\ 1 \in DOMAIN g.cache /\ g.state # "shared"
          /\ Marks(g, e) /\ Sizes(dbFile, g, e) /\ NowKept(dbFile, g, e, h)
          /\ TransKept(dbFile, g, e, hb, old, d) /\ Flagged(g, e, hb \ h)
          /\ WaitKept(dbFile, g, e, hb, old, ea)
          /\ g.stmt.inUse => /\ StmtMarks(g)
                             /\ Flagged(g, e, (hb \cup hs) \ (h \cap hs))
                             /\ s \cap hs = {} => StmtKept(dbFile, g, e, hs, mid)
      BY <1>0 DEF PagerGood
    <1>2. p > g.dbSize => ~e[p].inJournal
      BY <1>1 DEF Marks
    <1>3. /\ GoodPager(w) /\ DOMAIN w.cache = DOMAIN g.cache \cup {p}
          /\ Writes(g, e, p, c, w, e2)
      BY <1>1, <1>2, WrittenEffect
    <1>4. e \in [PageNumbers -> Entries]
      BY <1>1, ViewType
    <1> HIDE DEF e, w, e2
    <1>5. Marks(w, e2)
      BY <1>1, <1>3, <1>4, WriteMarks
    <1>6. Sizes(dbFile, w, e2)
      BY <1>1, <1>3, WriteSizes
    <1>7. NowKept(dbFile, w, e2, h \cup {p})
      BY <1>1, <1>3, WriteNow
    <1>8. TransKept(dbFile, w, e2, hb, old, d)
      BY <1>1, <1>3, <1>4, WriteTrans
    <1>a. WaitKept(dbFile, w, e2, hb, old, ea)
      BY <1>1, <1>3, <1>4, WriteWaits
    <1>9. \A q \in PageNumbers : Flagged(g, e, {q}) => Flagged(w, e2, {q})
      BY <1>3, WriteFlagged
    <1>10. Flagged(w, e2, hb \ (h \cup {p}))
      BY <1>1, <1>9 DEF Flagged
    <1>11. w.stmt.inUse = g.stmt.inUse
      BY <1>3 DEF Writes
    <1>12. ASSUME w.stmt.inUse
           PROVE  /\ StmtMarks(w)
                  /\ Flagged(w, e2, (hb \cup hs) \ ((h \cup {p}) \cap hs))
                  /\ s \cap hs = {} => StmtKept(dbFile, w, e2, hs, mid)
      <2>1. /\ g.stmt.inUse /\ StmtMarks(g)
            /\ Flagged(g, e, (hb \cup hs) \ (h \cap hs))
            /\ s \cap hs = {} => StmtKept(dbFile, g, e, hs, mid)
        BY <1>1, <1>11, <1>12
      <2>2. StmtMarks(w)
        BY <2>1, <1>1, <1>3, <1>4, WriteStmtMarks
      <2>3. Flagged(w, e2, (hb \cup hs) \ ((h \cup {p}) \cap hs))
        <3> SUFFICES ASSUME NEW q \in (hb \cup hs) \ ((h \cup {p}) \cap hs)
                     PROVE  w.alwaysRollback \/ e2[q].alwaysRollback
          BY DEF Flagged
        <3>1. q \in (hb \cup hs) \ (h \cap hs) /\ q \in PageNumbers
          OBVIOUS
        <3>2. Flagged(g, e, {q})
          BY <3>1, <2>1 DEF Flagged
        <3> QED BY <3>1, <3>2, <1>9 DEF Flagged
      <2>4. s \cap hs = {} => StmtKept(dbFile, w, e2, hs, mid)
        BY <2>1, <1>1, <1>3, <1>4, WriteStmt
      <2> QED BY <2>2, <2>3, <2>4
    <1>13. /\ w.state = g.state /\ w.origDbSize = g.origDbSize /\ w.stmt.size = g.stmt.size
           /\ w.dbSize = IF p > g.dbSize THEN p ELSE g.dbSize
           /\ e2[p].content = c /\ \A q \in PageNumbers \ {p} : e2[q] = e[q]
      BY <1>3 DEF Writes
    <1>14. [q \in PageNumbers |-> e2[q].content]
           = [[q \in PageNumbers |-> e[q].content] EXCEPT ![p] = c]
      BY <1>13
    <1>15. PagerGood(dbFile, w, e2, h \cup {p}, hb, hs, old, mid, d, s, ea)
      BY <1>1, <1>3, <1>5, <1>6, <1>7, <1>8, <1>a, <1>10, <1>12, <1>13 DEF PagerGood
    <1>16. /\ GoodIn(w, h \cup {p}, hb, hs, old, mid, d, s, ea)
           /\ HeldBy(w) = With(HeldBy(g), p, c)
           /\ Same(g, w)
           /\ w.dbSize = IF p > g.dbSize THEN p ELSE g.dbSize
           /\ \A q \in PageNumbers \ {p} : View(dbFile, w)[q] = View(dbFile, g)[q]
      BY <1>11, <1>13, <1>14, <1>15 DEF GoodIn, HeldBy, With, Same, e, e2
    <1> QED BY <1>16 DEF Writing, w

\* ... sqlite3pager_dont_write, of a page that is not kept any more,
LEMMA DontWriteGood ==
    ASSUME GoodFile(dbFile), NEW g,
           NEW h, NEW hb, NEW hs, NEW old, NEW mid, NEW d, NEW s, NEW ea,
           GoodIn(g, h, hb, hs, old, mid, d, s, ea),
           NEW p \in PageNumbers, NEW x, x = IF Drops(g, p) THEN {p} ELSE {}
    PROVE  /\ GoodIn(DontWrite(g, p), h \ {p}, hb, hs, old, mid, d \cup x,
                     IF g.stmt.inUse THEN s \cup x ELSE s, ea)
           /\ HeldBy(DontWrite(g, p)) = HeldBy(g)
           /\ Same(g, DontWrite(g, p)) /\ DontWrite(g, p).dbSize = g.dbSize
    <1> DEFINE e == View(dbFile, g)
               w == DontWrite(g, p)
               e2 == View(dbFile, w)
               s2 == IF g.stmt.inUse THEN s \cup x ELSE s
    <1>0. PagerGood(dbFile, g, e, h, hb, hs, old, mid, d, s, ea)
      BY DEF GoodIn
    <1>s. h \in SUBSET PageNumbers /\ hb \in SUBSET PageNumbers /\ hs \in SUBSET PageNumbers
      BY DEF GoodIn
    <1> USE <1>s
    <1>1. /\ GoodPager(g) /\ 1 \in DOMAIN g.cache /\ g.state # "shared"
          /\ Marks(g, e) /\ Sizes(dbFile, g, e) /\ NowKept(dbFile, g, e, h)
          /\ TransKept(dbFile, g, e, hb, old, d) /\ Flagged(g, e, hb \ h)
          /\ WaitKept(dbFile, g, e, hb, old, ea)
          /\ g.stmt.inUse => /\ StmtMarks(g)
                             /\ Flagged(g, e, (hb \cup hs) \ (h \cap hs))
                             /\ s \cap hs = {} => StmtKept(dbFile, g, e, hs, mid)
      BY <1>0 DEF PagerGood
    <1>2. /\ GoodPager(w) /\ DOMAIN w.cache = DOMAIN g.cache \cup {p}
          /\ Releases(g, e, p, w, e2) /\ (Drops(g, p) <=> Dropping(g, e, p))
      BY <1>1, DontWriteEffect
    <1> HIDE DEF e, w, e2
    <1>3. /\ e2[p].content = e[p].content /\ e2[p].inJournal = e[p].inJournal
          /\ e2[p].alwaysRollback /\ e2[p].needSync = e[p].needSync
          /\ (e2[p].dirty <=> e[p].dirty /\ ~Dropping(g, e, p))
          /\ \A q \in PageNumbers \ {p} : e2[q] = e[q]
      BY <1>2 DEF Releases
    <1>4. /\ w.state = g.state /\ w.dbSize = g.dbSize /\ w.origDbSize = g.origDbSize
          /\ w.alwaysRollback = g.alwaysRollback /\ w.journal = g.journal
          /\ w.stmt.inUse = g.stmt.inUse /\ w.stmt.size = g.stmt.size
          /\ w.stmt.skip = g.stmt.skip /\ w.stmt.saved = g.stmt.saved
          /\ w.inJournal = g.inJournal /\ w.stmt.marked = g.stmt.marked
          /\ w.counted = g.counted
      BY <1>2 DEF Releases, SameFields
    <1>5. \A q \in PageNumbers : /\ e2[q].content = e[q].content
                                 /\ e2[q].inJournal = e[q].inJournal
                                 /\ e2[q].dirty => e[q].dirty
                                 /\ e[q].dirty /\ ~e2[q].dirty => q = p /\ Dropping(g, e, p)
                                 /\ e[q].alwaysRollback => e2[q].alwaysRollback
                                 /\ e2[q].needSync = e[q].needSync
      <2> SUFFICES ASSUME NEW q \in PageNumbers
                   PROVE  /\ e2[q].content = e[q].content
                          /\ e2[q].inJournal = e[q].inJournal
                          /\ e2[q].dirty => e[q].dirty
                          /\ e[q].dirty /\ ~e2[q].dirty => q = p /\ Dropping(g, e, p)
                          /\ e[q].alwaysRollback => e2[q].alwaysRollback
                          /\ e2[q].needSync = e[q].needSync
        OBVIOUS
      <2> QED BY <1>3
    <1>6. Marks(w, e2)
      BY <1>1, <1>4, <1>5 DEF Marks
    <1>7. Sizes(dbFile, w, e2)
      <2>1. /\ Len(dbFile) <= g.dbSize
            /\ g.dbSize <= Len(dbFile) \/ e[g.dbSize].dirty
            /\ g.origDbSize <= Len(dbFile)
        BY <1>1 DEF Sizes
      <2>2. g.dbSize \in PageNumbers /\ g.dbSize \in Nat /\ g.origDbSize \in Nat
        BY <1>1, PagerFields
      <2>3. g.dbSize <= Len(dbFile) \/ e2[g.dbSize].dirty
        <3>1. CASE g.dbSize <= Len(dbFile)
          BY <3>1
        <3>2. CASE ~(g.dbSize <= Len(dbFile))
          <4>1. g.origDbSize < g.dbSize
            <5>1. Len(dbFile) \in Nat
              BY LenProperties DEF GoodFile
            <5> QED BY <3>2, <5>1, <2>1, <2>2
          <4>2. ~(g.dbSize = p /\ Dropping(g, e, p))
            BY <4>1 DEF Dropping
          <4> QED BY <3>2, <4>2, <2>1, <2>2, <1>5
        <3> QED BY <3>1, <3>2
      <2> QED BY <2>1, <2>3, <1>4 DEF Sizes
    <1>8. NowKept(dbFile, w, e2, h \ {p})
      BY <1>1, <1>3, <1>4 DEF NowKept
    <1>9. TransKept(dbFile, w, e2, hb, old, d \cup x)
      <2> SUFFICES ASSUME NEW q \in hb
                   PROVE  /\ q <= w.origDbSize
                          /\ w.state = "reserved" => At(dbFile, q) = old[q]
                          /\ q \in w.inJournal => Has(w.journal, 0, q, old[q])
                          /\ q \in w.inJournal /\ w.state = "reserved"
                             => e2[q].dirty \/ q \in d \cup x
                          /\ q \notin w.inJournal => /\ At(dbFile, q) = old[q] /\ ~e2[q].dirty
                                                     /\ e2[q].content = old[q]
        BY DEF TransKept
      <2>1. /\ q <= g.origDbSize
            /\ g.state = "reserved" => At(dbFile, q) = old[q]
            /\ q \in g.inJournal => Has(g.journal, 0, q, old[q])
            /\ q \in g.inJournal /\ g.state = "reserved" => e[q].dirty \/ q \in d
            /\ q \notin g.inJournal => At(dbFile, q) = old[q] /\ ~e[q].dirty /\ e[q].content = old[q]
        BY <1>1 DEF TransKept
      <2>2. e[q].dirty /\ ~e2[q].dirty => q \in x
        BY <1>2, <1>5
      <2> QED BY <2>1, <2>2, <1>4, <1>5
    <1>w. WaitKept(dbFile, w, e2, hb, old, ea)
      BY <1>1, <1>4, <1>5 DEF WaitKept
    <1>10. \A q \in PageNumbers : (g.alwaysRollback \/ e[q].alwaysRollback)
                                  => (w.alwaysRollback \/ e2[q].alwaysRollback)
      BY <1>4, <1>5
    <1>11. Flagged(w, e2, hb \ (h \ {p}))
      BY <1>1, <1>3, <1>10 DEF Flagged
    <1>12. ASSUME w.stmt.inUse
           PROVE  /\ StmtMarks(w)
                  /\ Flagged(w, e2, (hb \cup hs) \ ((h \ {p}) \cap hs))
                  /\ s2 \cap hs = {} => StmtKept(dbFile, w, e2, hs, mid)
      <2>1. /\ g.stmt.inUse /\ StmtMarks(g)
            /\ Flagged(g, e, (hb \cup hs) \ (h \cap hs))
            /\ s \cap hs = {} => StmtKept(dbFile, g, e, hs, mid)
        BY <1>1, <1>4, <1>12
      <2>a. InStmt(w) = InStmt(g)
        BY <1>4 DEF InStmt
      <2>2. StmtMarks(w)
        BY <2>1, <2>a, <1>4 DEF StmtMarks
      <2>3. Flagged(w, e2, (hb \cup hs) \ ((h \ {p}) \cap hs))
        BY <2>1, <1>3, <1>10 DEF Flagged
      <2>4. ASSUME s2 \cap hs = {}
            PROVE  StmtKept(dbFile, w, e2, hs, mid)
        <3>1. s \cap hs = {} /\ x \cap hs = {}
          BY <2>1, <2>4
        <3>2. StmtKept(dbFile, g, e, hs, mid)
          BY <3>1, <2>1
        <3> SUFFICES ASSUME NEW q \in hs
                     PROVE  /\ q <= w.stmt.size
                            /\ q \in InStmt(w) => \/ Has(w.stmt.saved, 0, q, mid[q])
                                                  \/ Has(w.journal, w.stmt.skip, q, mid[q])
                            /\ q \in InStmt(w) /\ w.state = "reserved" => e2[q].dirty
                            /\ q \notin InStmt(w) => q \notin w.stmt.marked
                                                     /\ e2[q].content = mid[q]
                            /\ q \notin InStmt(w) /\ ~e2[q].dirty => At(dbFile, q) = mid[q]
          BY DEF StmtKept
        <3>3. /\ q <= g.stmt.size
              /\ q \in InStmt(g) => \/ Has(g.stmt.saved, 0, q, mid[q])
                                    \/ Has(g.journal, g.stmt.skip, q, mid[q])
              /\ q \in InStmt(g) /\ g.state = "reserved" => e[q].dirty
              /\ q \notin InStmt(g) => q \notin g.stmt.marked /\ e[q].content = mid[q]
              /\ q \notin InStmt(g) /\ ~e[q].dirty => At(dbFile, q) = mid[q]
          BY <3>2 DEF StmtKept
        <3>4. e2[q].dirty <=> e[q].dirty
          <4>1. q = p => ~Drops(g, p)
            BY <3>1
          <4> QED BY <4>1, <1>2, <1>5
        <3> QED BY <3>3, <3>4, <2>a, <1>4, <1>5
      <2> QED BY <2>2, <2>3, <2>4
    <1>13. [q \in PageNumbers |-> e2[q].content] = [q \in PageNumbers |-> e[q].content]
      BY <1>5
    <1> HIDE DEF s2
    <1>14. PagerGood(dbFile, w, e2, h \ {p}, hb, hs, old, mid, d \cup x, s2, ea)
      BY <1>1, <1>2, <1>4, <1>6, <1>7, <1>8, <1>9, <1>w, <1>11, <1>12 DEF PagerGood
    <1> QED BY <1>4, <1>13, <1>14 DEF GoodIn, HeldBy, Same, e, w, e2, s2

\* ... and sqlite3pager_dont_rollback, of one that was not kept.
LEMMA DontRollbackGood ==
    ASSUME GoodFile(dbFile), NEW g,
           NEW h, NEW hb, NEW hs, NEW old, NEW mid, NEW d, NEW s, NEW ea,
           GoodIn(g, h, hb, hs, old, mid, d, s, ea),
           NEW p \in PageNumbers, p \notin h
    PROVE  /\ GoodIn(DontRollback(g, p), h, hb, hs, old, mid, d, s, ea)
           /\ HeldBy(DontRollback(g, p)) = HeldBy(g)
           /\ Same(g, DontRollback(g, p)) /\ DontRollback(g, p).dbSize = g.dbSize
    <1> DEFINE e == View(dbFile, g)
               w == DontRollback(g, p)
               e2 == View(dbFile, w)
    <1>0. PagerGood(dbFile, g, e, h, hb, hs, old, mid, d, s, ea)
      BY DEF GoodIn
    <1>s. h \in SUBSET PageNumbers /\ hb \in SUBSET PageNumbers /\ hs \in SUBSET PageNumbers
      BY DEF GoodIn
    <1> USE <1>s
    <1>1. /\ GoodPager(g) /\ 1 \in DOMAIN g.cache /\ g.state # "shared"
          /\ Marks(g, e) /\ Sizes(dbFile, g, e) /\ NowKept(dbFile, g, e, h)
          /\ TransKept(dbFile, g, e, hb, old, d) /\ Flagged(g, e, hb \ h)
          /\ WaitKept(dbFile, g, e, hb, old, ea)
          /\ g.stmt.inUse => /\ StmtMarks(g)
                             /\ Flagged(g, e, (hb \cup hs) \ (h \cap hs))
                             /\ s \cap hs = {} => StmtKept(dbFile, g, e, hs, mid)
      BY <1>0 DEF PagerGood
    <1>2. /\ GoodPager(w) /\ DOMAIN w.cache = DOMAIN g.cache \cup {p}
          /\ Spares(g, e, p, w, e2)
      BY <1>1, DontRollbackEffect
    <1> HIDE DEF e, w, e2
    <1>3. /\ \A q \in PageNumbers \ {p} : e2[q] = e[q]
          /\ e2[p].content = e[p].content /\ e2[p].dirty = e[p].dirty
          /\ e2[p].alwaysRollback = e[p].alwaysRollback /\ e2[p].needSync = e[p].needSync
      BY <1>2 DEF Spares
    <1>4. /\ w.state = g.state /\ w.dbSize = g.dbSize /\ w.origDbSize = g.origDbSize
          /\ w.alwaysRollback = g.alwaysRollback /\ w.journal = g.journal
          /\ w.stmt.inUse = g.stmt.inUse /\ w.stmt.size = g.stmt.size
          /\ w.stmt.skip = g.stmt.skip /\ w.stmt.saved = g.stmt.saved /\ w.counted = g.counted
      BY <1>2 DEF Spares, SameFields
    <1>5. \A q \in PageNumbers : /\ e2[q].content = e[q].content
                                 /\ e2[q].dirty = e[q].dirty
                                 /\ e2[q].alwaysRollback = e[q].alwaysRollback
                                 /\ e2[q].needSync = e[q].needSync
      <2> SUFFICES ASSUME NEW q \in PageNumbers
                   PROVE  /\ e2[q].content = e[q].content
                          /\ e2[q].dirty = e[q].dirty
                          /\ e2[q].alwaysRollback = e[q].alwaysRollback
                          /\ e2[q].needSync = e[q].needSync
        OBVIOUS
      <2> QED BY <1>3
    <1>6. \/ /\ e2[p].inJournal = e[p].inJournal
             /\ w.inJournal = g.inJournal /\ w.stmt.marked = g.stmt.marked
          \/ /\ p \notin hb /\ (g.stmt.inUse => p \notin hs)
             /\ (e2[p].inJournal <=> e[p].inJournal \/ p <= g.origDbSize)
             /\ w.inJournal = IF p <= g.origDbSize THEN g.inJournal \cup {p} ELSE g.inJournal
             /\ w.stmt.marked = IF g.stmt.inUse /\ p <= g.stmt.size THEN g.stmt.marked \cup {p}
                                ELSE g.stmt.marked
      <2>1. ~e[p].alwaysRollback /\ ~g.alwaysRollback
            => p \notin hb /\ (g.stmt.inUse => p \notin hs)
        BY <1>1 DEF Flagged
      <2> QED BY <2>1, <1>2 DEF Spares
    <1>7. /\ g.inJournal \subseteq w.inJournal /\ w.inJournal \subseteq g.inJournal \cup {p}
          /\ g.stmt.marked \subseteq w.stmt.marked /\ w.stmt.marked \subseteq g.stmt.marked \cup {p}
          /\ p \in hb => (p \in w.inJournal <=> p \in g.inJournal)
          /\ g.stmt.inUse /\ p \in hs => (p \in w.stmt.marked <=> p \in g.stmt.marked)
      BY <1>6
    <1>8. Marks(w, e2)
      <2>1. /\ Recorded(g.journal) \subseteq g.inJournal
            /\ Once(g.journal)
            /\ \A q \in PageNumbers : q <= g.origDbSize => (e[q].inJournal <=> q \in g.inJournal)
            /\ \A q \in PageNumbers : q > g.dbSize => ~e[q].inJournal /\ ~e[q].dirty
        BY <1>1 DEF Marks
      <2>2. \A q \in PageNumbers : q <= g.origDbSize => (e2[q].inJournal <=> q \in w.inJournal)
        <3> SUFFICES ASSUME NEW q \in PageNumbers, q <= g.origDbSize
                     PROVE  e2[q].inJournal <=> q \in w.inJournal
          OBVIOUS
        <3>1. CASE q = p
          BY <3>1, <2>1, <1>6
        <3>2. CASE q # p
          BY <3>2, <2>1, <1>3, <1>7
        <3> QED BY <3>1, <3>2
      <2>3. \A q \in PageNumbers : q > g.dbSize => ~e2[q].inJournal /\ ~e2[q].dirty
        <3> SUFFICES ASSUME NEW q \in PageNumbers, q > g.dbSize
                     PROVE  ~e2[q].inJournal /\ ~e2[q].dirty
          OBVIOUS
        <3>1. ~(q <= g.origDbSize)
          <4>1. g.dbSize \in Nat /\ g.origDbSize \in Nat /\ q \in Nat
            BY <1>1, PagerFields, PageNumber
          <4>2. g.origDbSize <= g.dbSize
            BY <1>1 DEF GoodPager
          <4> QED BY <4>1, <4>2
        <3>2. e2[q].inJournal <=> e[q].inJournal
          <4>1. CASE q = p
            BY <4>1, <3>1, <1>6
          <4>2. CASE q # p
            BY <4>2, <1>3
          <4> QED BY <4>1, <4>2
        <3> QED BY <3>2, <2>1, <1>5
      <2> QED BY <2>1, <2>2, <2>3, <1>4, <1>7 DEF Marks
    <1>9. Sizes(dbFile, w, e2)
      <2>1. g.dbSize \in PageNumbers
        BY <1>1, PagerFields
      <2> QED BY <2>1, <1>1, <1>4, <1>5 DEF Sizes
    <1>10. NowKept(dbFile, w, e2, h)
      BY <1>1, <1>4, <1>5 DEF NowKept
    <1>11. TransKept(dbFile, w, e2, hb, old, d)
      <2> SUFFICES ASSUME NEW q \in hb
                   PROVE  /\ q <= w.origDbSize
                          /\ w.state = "reserved" => At(dbFile, q) = old[q]
                          /\ q \in w.inJournal => Has(w.journal, 0, q, old[q])
                          /\ q \in w.inJournal /\ w.state = "reserved" => e2[q].dirty \/ q \in d
                          /\ q \notin w.inJournal => /\ At(dbFile, q) = old[q] /\ ~e2[q].dirty
                                                     /\ e2[q].content = old[q]
        BY DEF TransKept
      <2>1. /\ q <= g.origDbSize
            /\ g.state = "reserved" => At(dbFile, q) = old[q]
            /\ q \in g.inJournal => Has(g.journal, 0, q, old[q])
            /\ q \in g.inJournal /\ g.state = "reserved" => e[q].dirty \/ q \in d
            /\ q \notin g.inJournal => At(dbFile, q) = old[q] /\ ~e[q].dirty /\ e[q].content = old[q]
        BY <1>1 DEF TransKept
      <2>2. q \in w.inJournal <=> q \in g.inJournal
        BY <1>7
      <2> QED BY <2>1, <2>2, <1>4, <1>5
    <1>w. WaitKept(dbFile, w, e2, hb, old, ea)
      BY <1>1, <1>4, <1>5 DEF WaitKept
    <1>12. Flagged(w, e2, hb \ h)
      BY <1>1, <1>4, <1>5 DEF Flagged
    <1>13. ASSUME w.stmt.inUse
           PROVE  /\ StmtMarks(w)
                  /\ Flagged(w, e2, (hb \cup hs) \ (h \cap hs))
                  /\ s \cap hs = {} => StmtKept(dbFile, w, e2, hs, mid)
      <2>1. /\ g.stmt.inUse /\ StmtMarks(g)
            /\ Flagged(g, e, (hb \cup hs) \ (h \cap hs))
            /\ s \cap hs = {} => StmtKept(dbFile, g, e, hs, mid)
        BY <1>1, <1>4, <1>13
      <2>a. InStmt(w) = InStmt(g)
        BY <1>4 DEF InStmt
      <2>2. StmtMarks(w)
        BY <2>1, <2>a, <1>4, <1>7 DEF StmtMarks
      <2>3. Flagged(w, e2, (hb \cup hs) \ (h \cap hs))
        BY <2>1, <1>4, <1>5 DEF Flagged
      <2>4. ASSUME s \cap hs = {}
            PROVE  StmtKept(dbFile, w, e2, hs, mid)
        <3>2. StmtKept(dbFile, g, e, hs, mid)
          BY <2>4, <2>1
        <3> SUFFICES ASSUME NEW q \in hs
                     PROVE  /\ q <= w.stmt.size
                            /\ q \in InStmt(w) => \/ Has(w.stmt.saved, 0, q, mid[q])
                                                  \/ Has(w.journal, w.stmt.skip, q, mid[q])
                            /\ q \in InStmt(w) /\ w.state = "reserved" => e2[q].dirty
                            /\ q \notin InStmt(w) => q \notin w.stmt.marked
                                                     /\ e2[q].content = mid[q]
                            /\ q \notin InStmt(w) /\ ~e2[q].dirty => At(dbFile, q) = mid[q]
          BY DEF StmtKept
        <3>3. /\ q <= g.stmt.size
              /\ q \in InStmt(g) => \/ Has(g.stmt.saved, 0, q, mid[q])
                                    \/ Has(g.journal, g.stmt.skip, q, mid[q])
              /\ q \in InStmt(g) /\ g.state = "reserved" => e[q].dirty
              /\ q \notin InStmt(g) => q \notin g.stmt.marked /\ e[q].content = mid[q]
              /\ q \notin InStmt(g) /\ ~e[q].dirty => At(dbFile, q) = mid[q]
          BY <3>2 DEF StmtKept
        <3>4. q \in w.stmt.marked <=> q \in g.stmt.marked
          BY <2>1, <1>7
        <3> QED BY <3>3, <3>4, <2>a, <1>4, <1>5
      <2> QED BY <2>2, <2>3, <2>4
    <1>14. [q \in PageNumbers |-> e2[q].content] = [q \in PageNumbers |-> e[q].content]
      BY <1>5
    <1>15. PagerGood(dbFile, w, e2, h, hb, hs, old, mid, d, s, ea)
      BY <1>1, <1>2, <1>4, <1>8, <1>9, <1>10, <1>11, <1>w, <1>12, <1>13 DEF PagerGood
    <1> QED BY <1>4, <1>14, <1>15 DEF GoodIn, HeldBy, Same, e, w, e2

-----------------------------------------------------------------------------
\* What is in a sequence, when one element is added or taken away.
LEMMA ItemsAppended ==
    ASSUME NEW S, NEW s \in Seq(S), NEW x \in S
    PROVE  /\ Append(s, x) \in Seq(S) /\ Len(Append(s, x)) = Len(s) + 1
           /\ Append(s, x)[Len(s) + 1] = x
           /\ \A i \in 1..Len(s) : Append(s, x)[i] = s[i]
           /\ Items(Append(s, x)) = Items(s) \cup {x}
           /\ Distinct(s) /\ x \notin Items(s) => Distinct(Append(s, x))
    <1> DEFINE n == Len(s)
               a == Append(s, x)
    <1>1. /\ a \in Seq(S) /\ Len(a) = n + 1 /\ a[n + 1] = x
          /\ \A i \in 1..n : a[i] = s[i]
      BY AppendProperties
    <1>2. n \in Nat
      BY LenProperties
    <1> HIDE DEF n, a
    <1>3. \A i \in 1..n + 1 : i \in 1..n \/ i = n + 1
      BY <1>2
    <1>4. \A i \in 1..n : i \in 1..n + 1
      BY <1>2
    <1>5. n + 1 \in 1..n + 1
      BY <1>2
    <1>6. Items(a) = Items(s) \cup {x}
      BY <1>1, <1>3, <1>4, <1>5 DEF Items, n
    <1>7. ASSUME Distinct(s), x \notin Items(s)
          PROVE  Distinct(a)
      <2>1. \A i \in 1..n : s[i] # x
        BY <1>7 DEF Items, n
      <2>2. \A i, j \in 1..n : s[i] = s[j] => i = j
        BY <1>7 DEF Distinct, n
      <2> SUFFICES ASSUME NEW i \in 1..n + 1, NEW j \in 1..n + 1, a[i] = a[j]
                   PROVE  i = j
        BY <1>1 DEF Distinct
      <2>3. CASE i \in 1..n /\ j \in 1..n
        BY <2>2, <2>3, <1>1
      <2>4. CASE i = n + 1 /\ j \in 1..n
        BY <2>1, <2>4, <1>1
      <2>5. CASE i \in 1..n /\ j = n + 1
        BY <2>1, <2>5, <1>1
      <2> QED BY <2>3, <2>4, <2>5, <1>3
    <1> QED BY <1>1, <1>6, <1>7 DEF n, a

LEMMA ItemsFront ==
    ASSUME NEW S, NEW s \in Seq(S), s # <<>>
    PROVE  /\ Len(s) \in Nat /\ Len(s) >= 1 /\ s[Len(s)] \in Items(s) /\ s[Len(s)] \in S
           /\ SubSeq(s, 1, Len(s) - 1) \in Seq(S) /\ Len(SubSeq(s, 1, Len(s) - 1)) = Len(s) - 1
           /\ \A i \in 1..Len(s) - 1 : SubSeq(s, 1, Len(s) - 1)[i] = s[i]
           /\ Items(s) = Items(SubSeq(s, 1, Len(s) - 1)) \cup {s[Len(s)]}
           /\ Distinct(s) => /\ s[Len(s)] \notin Items(SubSeq(s, 1, Len(s) - 1))
                             /\ Distinct(SubSeq(s, 1, Len(s) - 1))
    <1> DEFINE n == Len(s)
               u == SubSeq(s, 1, n - 1)
    <1>1. n \in Nat /\ n >= 1
      BY EmptySeq, LenProperties
    <1>2. n \in 1..n /\ \A i \in 1..n - 1 : i \in 1..n /\ i # n
      BY <1>1
    <1>3. u \in Seq(S) /\ Len(u) = n - 1 /\ \A i \in 1..n - 1 : u[i] = s[i]
      <2>1. \A i \in 1..n - 1 : s[i] \in S
        BY <1>2, ElementOfSeq
      <2>2. /\ SubSeq(s, 1, n - 1) \in Seq(S)
            /\ Len(SubSeq(s, 1, n - 1)) = IF 1 <= n - 1 THEN n - 1 - 1 + 1 ELSE 0
            /\ \A i \in 1..n - 1 - 1 + 1 : SubSeq(s, 1, n - 1)[i] = s[1 + i - 1]
        BY <1>1, <2>1, SubSeqProperties
      <2> HIDE DEF n
      <2>3. (IF 1 <= n - 1 THEN n - 1 - 1 + 1 ELSE 0) = n - 1
        BY <1>1
      <2>4. \A i \in 1..n - 1 : i \in 1..n - 1 - 1 + 1 /\ 1 + i - 1 = i
        BY <1>1
      <2> QED BY <2>2, <2>3, <2>4
    <1>4. s[n] \in S
      BY <1>2, ElementOfSeq
    <1> HIDE DEF n, u
    <1>5. \A i \in 1..n : i \in 1..n - 1 \/ i = n
      BY <1>1
    <1>6. Items(s) = Items(u) \cup {s[n]}
      BY <1>2, <1>3, <1>5 DEF Items, n
    <1>7. ASSUME Distinct(s)
          PROVE  s[n] \notin Items(u) /\ Distinct(u)
      <2>1. \A i, j \in 1..n : s[i] = s[j] => i = j
        BY <1>7 DEF Distinct, n
      <2>2. \A i \in 1..n - 1 : u[i] # s[n]
        BY <2>1, <1>2, <1>3
      <2>3. \A i, j \in 1..n - 1 : u[i] = u[j] => i = j
        BY <2>1, <1>2, <1>3
      <2> QED BY <2>2, <2>3, <1>3 DEF Items, Distinct
    <1> QED BY <1>1, <1>2, <1>3, <1>4, <1>6, <1>7 DEF n, u

\* A leaf is taken from a trunk: the last one gets its place.
LEMMA WithoutItems ==
    ASSUME NEW S, NEW s \in Seq(S), Distinct(s), NEW p \in Items(s)
    PROVE  /\ Without(s, p) \in Seq(S) /\ Len(Without(s, p)) = Len(s) - 1
           /\ Items(Without(s, p)) = Items(s) \ {p}
           /\ Distinct(Without(s, p))
    <1> DEFINE k == Len(s)
               i == CHOOSE j \in 1..k : s[j] = p
               w == [j \in 1..k - 1 |-> IF j = i THEN s[k] ELSE s[j]]
    <1>0. Without(s, p) = w
      BY DEF Without
    <1>1. i \in 1..k /\ s[i] = p
      BY DEF Items
    <1>2. k \in Nat /\ k >= 1 /\ k - 1 \in Nat
      <2>1. k \in Nat
        BY LenProperties
      <2> HIDE DEF i, k
      <2> QED BY <2>1, <1>1
    <1>3. \A j \in 1..k : s[j] \in S
      BY ElementOfSeq
    <1> HIDE DEF i, k
    <1>4. k \in 1..k /\ \A j \in 1..k - 1 : j \in 1..k /\ j # k
      BY <1>2
    <1>5. \A j \in 1..k - 1 : w[j] \in S /\ w[j] = IF j = i THEN s[k] ELSE s[j]
      BY <1>3, <1>4
    <1>6. w \in Seq(S) /\ Len(w) = k - 1
      <2>1. w \in [1..k - 1 -> S]
        BY <1>3, <1>4
      <2> QED BY <2>1, <1>2, IsASeq, LenProperties
    <1> HIDE DEF w
    <1>7. \A j, l \in 1..k : s[j] = s[l] => j = l
      BY DEF Distinct, k
    <1>8. \A j \in 1..k : j \in 1..k - 1 \/ j = k
      BY <1>2
    <1>9. Distinct(w)
      <2> SUFFICES ASSUME NEW j \in 1..k - 1, NEW l \in 1..k - 1, w[j] = w[l]
                   PROVE  j = l
        BY <1>6 DEF Distinct
      <2> QED BY <1>4, <1>5, <1>7
    <1>10. Items(w) = Items(s) \ {p}
      <2>1. Items(w) = {w[j] : j \in 1..k - 1} /\ Items(s) = {s[j] : j \in 1..k}
        BY <1>6 DEF Items, k
      <2>2. ASSUME NEW j \in 1..k - 1
            PROVE  w[j] \in Items(s) /\ w[j] # p
        <3>1. CASE j = i
          <4>1. w[j] = s[k] /\ k # i
            BY <3>1, <1>4, <1>5
          <4> QED BY <4>1, <2>1, <1>1, <1>4, <1>7
        <3>2. CASE j # i
          <4>1. w[j] = s[j]
            BY <3>2, <1>5
          <4> QED BY <3>2, <4>1, <2>1, <1>1, <1>4, <1>7
        <3> QED BY <3>1, <3>2
      <2>3. ASSUME NEW j \in 1..k, s[j] # p
            PROVE  s[j] \in Items(w)
        <3>1. j # i
          BY <2>3, <1>1
        <3>2. CASE j \in 1..k - 1
          BY <3>1, <3>2, <2>1, <1>5
        <3>3. CASE j = k
          <4>1. i \in 1..k - 1
            BY <3>1, <3>3, <1>1, <1>8
          <4>2. w[i] = s[k]
            BY <4>1, <1>5
          <4> QED BY <4>1, <4>2, <3>3, <2>1
        <3> QED BY <3>2, <3>3, <1>8
      <2> QED BY <2>1, <2>2, <2>3
    <1> QED BY <1>0, <1>6, <1>9, <1>10 DEF k

-----------------------------------------------------------------------------
\* The list of free pages.
LEMMA Trunks ==
    ASSUME NEW t \in Seq(PageNumbers \ {1})
    PROVE  /\ Len(t) \in Nat
           /\ \A i \in 1..Len(t) : t[i] \in PageNumbers /\ t[i] # 1 /\ t[i] \in Items(t)
           /\ 1 \notin Items(t) /\ Items(t) \subseteq PageNumbers
    <1>1. \A i \in 1..Len(t) : t[i] \in PageNumbers \ {1}
      BY ElementOfSeq
    <1>2. Len(t) \in Nat
      BY LenProperties
    <1> QED BY <1>1, <1>2 DEF Items

\* Contents that are the same in some pages.
SameIn(c, c2, pages) == \A q \in pages : c2[q] = c[q]

\* The list depends on the contents of page 1 and of the trunks only.
LEMMA ChainSame ==
    ASSUME NEW c, NEW c2, NEW t \in Seq(PageNumbers \ {1}), Chain(c, t),
           SameIn(c, c2, {1} \cup Items(t))
    PROVE  Chain(c2, t) /\ FreeIn(c2, t) = FreeIn(c, t)
    <1>0. \A q \in {1} \cup Items(t) : c2[q] = c[q]
      BY DEF SameIn
    <1>1. \A i \in 1..Len(t) : c2[t[i]] = c[t[i]]
      BY <1>0, Trunks
    <1>2. \A i \in 1..Len(t) : LeavesOf(c2, t, i) = LeavesOf(c, t, i)
      BY <1>1 DEF LeavesOf
    <1>3. FreeIn(c2, t) = FreeIn(c, t)
      BY <1>2 DEF FreeIn
    <1>4. \A i \in 1..Len(t) : IsTrunk(c2, t, i)
      <2> SUFFICES ASSUME NEW i \in 1..Len(t) PROVE IsTrunk(c2, t, i)
        OBVIOUS
      <2>1. IsTrunk(c, t, i)
        BY DEF Chain
      <2> QED BY <2>1, <1>1, <1>2 DEF IsTrunk
    <1> QED BY <1>0, <1>3, <1>4 DEF Chain

\* The empty list.
LEMMA EmptyList ==
    ASSUME NEW c, NEW t \in Seq(PageNumbers \ {1}), Chain(c, t), IsFiniteSet(FreeIn(c, t))
    PROVE  /\ c[1].free \in Nat
           /\ c[1].free = 0 <=> t = <<>>
           /\ t = <<>> => FreeIn(c, t) = {} /\ c[1].next = 0
    <1>1. c[1].free = Cardinality(FreeIn(c, t)) /\ c[1].next = Link(t, Len(t))
      BY DEF Chain
    <1>2. c[1].free \in Nat /\ (c[1].free = 0 <=> FreeIn(c, t) = {})
      BY <1>1, FS_CardinalityType, FS_EmptySet
    <1>3. ASSUME t = <<>>
          PROVE  FreeIn(c, t) = {} /\ c[1].next = 0
      <2>1. Len(t) = 0
        BY <1>3
      <2>2. 1..Len(t) = {}
        BY <2>1
      <2> QED BY <2>1, <2>2, <1>1 DEF FreeIn, Items, Link
    <1>4. ASSUME t # <<>>
          PROVE  FreeIn(c, t) # {}
      <2>1. t[Len(t)] \in Items(t)
        BY <1>4, ItemsFront
      <2> QED BY <2>1 DEF FreeIn
    <1> QED BY <1>2, <1>3, <1>4

\* A page becomes the first trunk.
TrunkAdded(c, c2, t, p) ==
    /\ c2[1].next = p /\ c2[1].free = c[1].free + 1
    /\ c2[p].next = c[1].next /\ c2[p].leaves = <<>>
    /\ \A q \in Items(t) : c2[q] = c[q]

LEMMA PushTrunk ==
    ASSUME NEW c, NEW c2, NEW t \in Seq(PageNumbers \ {1}), Chain(c, t),
           IsFiniteSet(FreeIn(c, t)), NEW p \in PageNumbers \ {1}, p \notin FreeIn(c, t),
           TrunkAdded(c, c2, t, p)
    PROVE  Chain(c2, Append(t, p)) /\ FreeIn(c2, Append(t, p)) = FreeIn(c, t) \cup {p}
    <1> USE DEF TrunkAdded
    <1> DEFINE n == Len(t)
               u == Append(t, p)
    <1>1. /\ u \in Seq(PageNumbers \ {1}) /\ Len(u) = n + 1 /\ u[n + 1] = p
          /\ \A i \in 1..n : u[i] = t[i]
          /\ Items(u) = Items(t) \cup {p}
      BY ItemsAppended
    <1>2. n \in Nat /\ \A i \in 1..n : t[i] \in Items(t)
      BY Trunks
    <1>3. p \notin Items(t) /\ \A i \in 1..n : p \notin LeavesOf(c, t, i)
      BY DEF FreeIn
    <1>4. Distinct(u)
      <2>1. Distinct(t)
        BY DEF Chain
      <2> QED BY <2>1, <1>3, ItemsAppended
    <1>5. \A i \in 1..n : IsTrunk(c, t, i)
      BY DEF Chain
    <1>6. c[1].next = Link(t, n) /\ c[1].free = Cardinality(FreeIn(c, t))
      BY DEF Chain
    <1> HIDE DEF n, u
    <1>7. \A i \in 1..n + 1 : i \in 1..n \/ i = n + 1
      BY <1>2
    <1>8. n + 1 \in 1..n + 1 /\ \A i \in 1..n : i \in 1..n + 1
      BY <1>2
    <1>9. \A i \in 1..n : c2[u[i]] = c[t[i]] /\ LeavesOf(c2, u, i) = LeavesOf(c, t, i)
      BY <1>1, <1>2 DEF LeavesOf
    <1>10. LeavesOf(c2, u, n + 1) = {}
      BY <1>1 DEF LeavesOf, Items
    <1>11. FreeIn(c2, u) = FreeIn(c, t) \cup {p}
      <2>1. UNION {LeavesOf(c2, u, i) : i \in 1..n + 1} = UNION {LeavesOf(c, t, i) : i \in 1..n}
        BY <1>7, <1>8, <1>9, <1>10
      <2> QED BY <2>1, <1>1 DEF FreeIn, n
    <1>12. c2[1].free = Cardinality(FreeIn(c2, u))
      BY <1>6, <1>11, FS_AddElement, Zenon
    <1>13. \A i \in 0..n : Link(u, i) = Link(t, i)
      <2> SUFFICES ASSUME NEW i \in 0..n PROVE Link(u, i) = Link(t, i)
        OBVIOUS
      <2>1. i = 0 \/ i \in 1..n
        BY <1>2
      <2> QED BY <2>1, <1>1 DEF Link
    <1>14. c2[1].next = Link(u, Len(u))
      BY <1>1, <1>2 DEF Link
    <1>15. ASSUME NEW i \in 1..n
           PROVE  IsTrunk(c2, u, i)
      <2>1. IsTrunk(c, t, i)
        BY <1>5
      <2>2. i - 1 \in 0..n
        BY <1>2
      <2>3. c2[u[i]].next = Link(u, i - 1)
        BY <2>1, <2>2, <1>9, <1>13 DEF IsTrunk
      <2>4. Len(c2[u[i]].leaves) <= TrunkCapacity /\ Distinct(c2[u[i]].leaves)
        BY <2>1, <1>9 DEF IsTrunk
      <2>5. LeavesOf(c2, u, i) \cap Items(u) = {}
        BY <2>1, <1>1, <1>3, <1>9 DEF IsTrunk
      <2>6. \A j \in 1..n + 1 : j # i => LeavesOf(c2, u, i) \cap LeavesOf(c2, u, j) = {}
        BY <2>1, <1>7, <1>9, <1>10 DEF IsTrunk, n
      <2> QED BY <2>3, <2>4, <2>5, <2>6, <1>1 DEF IsTrunk
    <1>16. IsTrunk(c2, u, n + 1)
      <2>1. c2[u[n + 1]].next = Link(u, (n + 1) - 1)
        <3>1. (n + 1) - 1 = n /\ n \in 0..n
          BY <1>2
        <3> QED BY <3>1, <1>1, <1>6, <1>13
      <2>2. Len(c2[u[n + 1]].leaves) <= TrunkCapacity /\ Distinct(c2[u[n + 1]].leaves)
        <3>1. c2[u[n + 1]].leaves = <<>>
          BY <1>1
        <3>2. TrunkCapacity \in Nat
          BY FreePagesAssumption
        <3> QED BY <3>1, <3>2 DEF Distinct
      <2>3. LeavesOf(c2, u, n + 1) \cap Items(u) = {}
        BY <1>10
      <2>4. \A j \in 1..Len(u) : j # n + 1 => LeavesOf(c2, u, n + 1) \cap LeavesOf(c2, u, j) = {}
        BY <1>10
      <2> QED BY <2>1, <2>2, <2>3, <2>4 DEF IsTrunk
    <1>17. \A i \in 1..Len(u) : IsTrunk(c2, u, i)
      BY <1>1, <1>7, <1>15, <1>16
    <1> QED BY <1>4, <1>11, <1>12, <1>14, <1>17 DEF Chain, u

\* A page becomes a leaf of the first trunk.
LeafAdded(c, c2, t, p) ==
    LET x == t[Len(t)]
    IN  /\ c[x].leaves \in Seq(PageNumbers) /\ Len(c[x].leaves) < TrunkCapacity
        /\ c2[1].next = c[1].next /\ c2[1].free = c[1].free + 1
        /\ c2[x].next = c[x].next /\ c2[x].leaves = Append(c[x].leaves, p)
        /\ \A q \in Items(t) \ {x} : c2[q] = c[q]

LEMMA PushLeaf ==
    ASSUME NEW c, NEW c2, NEW t \in Seq(PageNumbers \ {1}), Chain(c, t), t # <<>>,
           IsFiniteSet(FreeIn(c, t)), NEW p \in PageNumbers, p \notin FreeIn(c, t),
           LeafAdded(c, c2, t, p)
    PROVE  Chain(c2, t) /\ FreeIn(c2, t) = FreeIn(c, t) \cup {p}
    <1> USE DEF LeafAdded
    <1> DEFINE n == Len(t)
               x == t[n]
               s == c[x].leaves
    <1>1. n \in Nat /\ n >= 1
      BY ItemsFront
    <1>2. \A i \in 1..n : t[i] \in Items(t)
      BY Trunks
    <1>3. p \notin Items(t) /\ \A i \in 1..n : p \notin LeavesOf(c, t, i)
      BY DEF FreeIn
    <1>4. Distinct(t) /\ \A i \in 1..n : IsTrunk(c, t, i)
      BY DEF Chain
    <1>5. c[1].next = Link(t, n) /\ c[1].free = Cardinality(FreeIn(c, t))
      BY DEF Chain
    <1>6. /\ Len(Append(s, p)) = Len(s) + 1
          /\ Items(Append(s, p)) = Items(s) \cup {p}
          /\ Distinct(s) /\ p \notin Items(s) => Distinct(Append(s, p))
      BY ItemsAppended
    <1>7. Len(s) \in Nat /\ Len(s) < TrunkCapacity /\ TrunkCapacity \in Nat
      BY LenProperties, FreePagesAssumption
    <1>8. c2[x].next = c[x].next /\ c2[x].leaves = Append(s, p)
      OBVIOUS
    <1>9. n \in 1..n
      BY <1>1
    <1> HIDE DEF n
    <1>10. \A i \in 1..n \ {n} : t[i] # x /\ c2[t[i]] = c[t[i]]
      <2>1. \A i \in 1..n : t[i] = t[n] => i = n
        BY <1>4, <1>9 DEF Distinct, n
      <2> QED BY <2>1, <1>2 DEF n
    <1>11. \A i \in 1..n \ {n} : LeavesOf(c2, t, i) = LeavesOf(c, t, i)
      BY <1>10 DEF LeavesOf
    <1>12. LeavesOf(c, t, n) = Items(s) /\ LeavesOf(c2, t, n) = Items(s) \cup {p}
      BY <1>6, <1>8 DEF LeavesOf
    <1> HIDE DEF s
    <1>13. FreeIn(c2, t) = FreeIn(c, t) \cup {p}
      <2>1. UNION {LeavesOf(c2, t, i) : i \in 1..n}
            = (UNION {LeavesOf(c, t, i) : i \in 1..n}) \cup {p}
        BY <1>9, <1>11, <1>12
      <2> QED BY <2>1 DEF FreeIn, n
    <1>14. c2[1].free = Cardinality(FreeIn(c2, t))
      BY <1>5, <1>13, FS_AddElement
    <1>15. ASSUME NEW i \in 1..n
           PROVE  IsTrunk(c2, t, i)
      <2>1. IsTrunk(c, t, i) /\ IsTrunk(c, t, n)
        BY <1>4, <1>9
      <2>2. c2[t[i]].next = Link(t, i - 1)
        <3>1. c2[t[i]].next = c[t[i]].next
          BY <1>8, <1>10
        <3> QED BY <2>1, <3>1 DEF IsTrunk
      <2>3. Len(c2[t[i]].leaves) <= TrunkCapacity /\ Distinct(c2[t[i]].leaves)
        <3>1. CASE i = n
          <4>1. Distinct(s) /\ p \notin Items(s)
            BY <2>1, <1>3, <1>9, <1>12 DEF IsTrunk, s
          <4>2. Len(s) + 1 <= TrunkCapacity
            BY <1>7
          <4>3. c2[t[i]].leaves = Append(s, p)
            BY <3>1, <1>8
          <4> QED BY <4>1, <4>2, <4>3, <1>6
        <3>2. CASE i # n
          <4>1. c2[t[i]] = c[t[i]]
            BY <3>2, <1>10
          <4> QED BY <4>1, <2>1 DEF IsTrunk
        <3> QED BY <3>1, <3>2
      <2>4. LeavesOf(c2, t, i) \subseteq LeavesOf(c, t, i) \cup {p}
        BY <1>11, <1>12
      <2>5. LeavesOf(c2, t, i) \cap Items(t) = {}
        BY <2>1, <2>4, <1>3 DEF IsTrunk
      <2>6. ASSUME NEW j \in 1..n, j # i
            PROVE  LeavesOf(c2, t, i) \cap LeavesOf(c2, t, j) = {}
        <3>1. LeavesOf(c, t, i) \cap LeavesOf(c, t, j) = {}
          BY <2>1, <2>6 DEF IsTrunk, n
        <3>2. p \notin LeavesOf(c, t, i) /\ p \notin LeavesOf(c, t, j)
          BY <1>3
        <3>3. CASE i = n
          BY <3>1, <3>2, <3>3, <2>6, <1>11, <1>12
        <3>4. CASE i # n
          <4>1. LeavesOf(c2, t, j) \subseteq LeavesOf(c, t, j) \cup {p}
            BY <1>11, <1>12
          <4> QED BY <3>1, <3>2, <3>4, <4>1, <1>11
        <3> QED BY <3>3, <3>4
      <2> QED BY <2>2, <2>3, <2>5, <2>6 DEF IsTrunk, n
    <1>16. c2[1].next = Link(t, n)
      BY <1>5
    <1> QED BY <1>4, <1>13, <1>14, <1>15, <1>16 DEF Chain, n

\* The first trunk, which has no leaves, is used.
TrunkTaken(c, c2, t) ==
    LET x == t[Len(t)]
    IN  /\ c[x].leaves = <<>>
        /\ c2[1].next = c[x].next /\ c2[1].free = c[1].free - 1
        /\ \A q \in Items(t) \ {x} : c2[q] = c[q]

LEMMA PopTrunk ==
    ASSUME NEW c, NEW c2, NEW t \in Seq(PageNumbers \ {1}), Chain(c, t), t # <<>>,
           IsFiniteSet(FreeIn(c, t)),
           TrunkTaken(c, c2, t)
    PROVE  /\ Chain(c2, SubSeq(t, 1, Len(t) - 1))
           /\ FreeIn(c2, SubSeq(t, 1, Len(t) - 1)) = FreeIn(c, t) \ {t[Len(t)]}
    <1> USE DEF TrunkTaken
    <1> DEFINE n == Len(t)
               x == t[n]
               u == SubSeq(t, 1, n - 1)
    <1>1. n \in Nat /\ n >= 1 /\ x \in Items(t)
      BY ItemsFront
    <1>2. /\ u \in Seq(PageNumbers \ {1}) /\ Len(u) = n - 1
          /\ \A i \in 1..n - 1 : u[i] = t[i]
          /\ Items(t) = Items(u) \cup {x}
      BY ItemsFront
    <1>3. Distinct(t) /\ \A i \in 1..n : IsTrunk(c, t, i)
      BY DEF Chain
    <1>4. x \notin Items(u) /\ Distinct(u)
      BY <1>3, ItemsFront
    <1>5. c[1].free = Cardinality(FreeIn(c, t))
      BY DEF Chain
    <1>6. \A i \in 1..n - 1 : u[i] \in Items(u)
      BY <1>2 DEF Items
    <1> HIDE DEF n, u
    <1>7. n \in 1..n /\ \A i \in 1..n - 1 : i \in 1..n
      BY <1>1
    <1>8. \A i \in 1..n : i \in 1..n - 1 \/ i = n
      BY <1>1
    <1>9. \A i \in 1..n - 1 : c2[u[i]] = c[t[i]] /\ LeavesOf(c2, u, i) = LeavesOf(c, t, i)
      <2>1. \A i \in 1..n - 1 : u[i] \in Items(t) \ {x}
        BY <1>2, <1>4, <1>6
      <2> QED BY <2>1, <1>2 DEF LeavesOf, n
    <1>10. LeavesOf(c, t, n) = {}
      BY DEF LeavesOf, Items, n
    <1>11. \A i \in 1..n : x \notin LeavesOf(c, t, i)
      BY <1>1, <1>3 DEF IsTrunk
    <1>12. FreeIn(c2, u) = FreeIn(c, t) \ {x}
      <2>1. UNION {LeavesOf(c2, u, i) : i \in 1..n - 1} = UNION {LeavesOf(c, t, i) : i \in 1..n}
        BY <1>7, <1>8, <1>9, <1>10
      <2>2. x \notin UNION {LeavesOf(c, t, i) : i \in 1..n}
        BY <1>11
      <2> QED BY <2>1, <2>2, <1>2, <1>4 DEF FreeIn, n
    <1>13. c2[1].free = Cardinality(FreeIn(c2, u))
      <2>1. x \in FreeIn(c, t)
        BY <1>1 DEF FreeIn
      <2> QED BY <2>1, <1>5, <1>12, FS_RemoveElement
    <1>14. \A i \in 0..n - 1 : Link(u, i) = Link(t, i)
      <2> SUFFICES ASSUME NEW i \in 0..n - 1 PROVE Link(u, i) = Link(t, i)
        OBVIOUS
      <2>1. i = 0 \/ i \in 1..n - 1
        BY <1>1
      <2> QED BY <2>1, <1>2 DEF Link
    <1>15. c2[1].next = Link(u, Len(u))
      <2>1. IsTrunk(c, t, n)
        BY <1>3, <1>7
      <2>2. c[x].next = Link(t, n - 1)
        BY <2>1 DEF IsTrunk
      <2>3. n - 1 \in 0..n - 1
        BY <1>1
      <2> QED BY <2>2, <2>3, <1>2, <1>14 DEF n
    <1>16. ASSUME NEW i \in 1..n - 1
           PROVE  IsTrunk(c2, u, i)
      <2>1. IsTrunk(c, t, i)
        BY <1>3, <1>7
      <2>2. i - 1 \in 0..n - 1
        BY <1>1
      <2>3. c2[u[i]].next = Link(u, i - 1)
        BY <2>1, <2>2, <1>9, <1>14 DEF IsTrunk
      <2>4. Len(c2[u[i]].leaves) <= TrunkCapacity /\ Distinct(c2[u[i]].leaves)
        BY <2>1, <1>9 DEF IsTrunk
      <2>5. LeavesOf(c2, u, i) \cap Items(u) = {}
        BY <2>1, <1>2, <1>9 DEF IsTrunk
      <2>6. \A j \in 1..n - 1 : j # i => LeavesOf(c2, u, i) \cap LeavesOf(c2, u, j) = {}
        BY <2>1, <1>7, <1>9 DEF IsTrunk, n
      <2> QED BY <2>3, <2>4, <2>5, <2>6, <1>2 DEF IsTrunk
    <1>17. \A i \in 1..Len(u) : IsTrunk(c2, u, i)
      BY <1>2, <1>16
    <1> QED BY <1>4, <1>12, <1>13, <1>15, <1>17 DEF Chain, u, n

\* A leaf of the first trunk is used.
LeafTaken(c, c2, t, p) ==
    LET x == t[Len(t)]
    IN  /\ c[x].leaves \in Seq(PageNumbers) /\ p \in Items(c[x].leaves)
        /\ c2[1].next = c[1].next /\ c2[1].free = c[1].free - 1
        /\ c2[x].next = c[x].next /\ c2[x].leaves = Without(c[x].leaves, p)
        /\ \A q \in Items(t) \ {x} : c2[q] = c[q]

LEMMA PopLeaf ==
    ASSUME NEW c, NEW c2, NEW t \in Seq(PageNumbers \ {1}), Chain(c, t), t # <<>>,
           IsFiniteSet(FreeIn(c, t)),
           NEW p, LeafTaken(c, c2, t, p)
    PROVE  /\ Chain(c2, t) /\ FreeIn(c2, t) = FreeIn(c, t) \ {p}
           /\ p \in FreeIn(c, t) /\ p \notin Items(t)
    <1> USE DEF LeafTaken
    <1> DEFINE n == Len(t)
               x == t[n]
               s == c[x].leaves
    <1>1. n \in Nat /\ n >= 1
      BY ItemsFront
    <1>2. \A i \in 1..n : t[i] \in Items(t)
      BY Trunks
    <1>4. Distinct(t) /\ \A i \in 1..n : IsTrunk(c, t, i)
      BY DEF Chain
    <1>5. c[1].next = Link(t, n) /\ c[1].free = Cardinality(FreeIn(c, t))
      BY DEF Chain
    <1>9. n \in 1..n
      BY <1>1
    <1>a. Distinct(s) /\ Len(s) <= TrunkCapacity
      BY <1>4, <1>9 DEF IsTrunk
    <1>6. /\ Len(Without(s, p)) = Len(s) - 1
          /\ Items(Without(s, p)) = Items(s) \ {p}
          /\ Distinct(Without(s, p))
      BY <1>a, WithoutItems
    <1>7. Len(s) \in Nat /\ TrunkCapacity \in Nat
      BY LenProperties, FreePagesAssumption
    <1>8. c2[x].next = c[x].next /\ c2[x].leaves = Without(s, p)
      OBVIOUS
    <1> HIDE DEF n
    <1>10. \A i \in 1..n \ {n} : t[i] # x /\ c2[t[i]] = c[t[i]]
      <2>1. \A i \in 1..n : t[i] = t[n] => i = n
        BY <1>4, <1>9 DEF Distinct, n
      <2> QED BY <2>1, <1>2 DEF n
    <1>11. \A i \in 1..n \ {n} : LeavesOf(c2, t, i) = LeavesOf(c, t, i)
      BY <1>10 DEF LeavesOf
    <1>12. LeavesOf(c, t, n) = Items(s) /\ LeavesOf(c2, t, n) = Items(s) \ {p}
      BY <1>6, <1>8 DEF LeavesOf
    <1>b. p \in LeavesOf(c, t, n)
      BY <1>12 DEF n
    <1> HIDE DEF s
    <1>3. p \notin Items(t) /\ \A i \in 1..n \ {n} : p \notin LeavesOf(c, t, i)
      <2>1. IsTrunk(c, t, n)
        BY <1>4, <1>9
      <2> QED BY <2>1, <1>b DEF IsTrunk, n
    <1>13. FreeIn(c2, t) = FreeIn(c, t) \ {p} /\ p \in FreeIn(c, t)
      <2>1. UNION {LeavesOf(c2, t, i) : i \in 1..n}
            = (UNION {LeavesOf(c, t, i) : i \in 1..n}) \ {p}
        BY <1>3, <1>9, <1>11, <1>12
      <2>2. p \in UNION {LeavesOf(c, t, i) : i \in 1..n}
        BY <1>b, <1>9
      <2> QED BY <2>1, <2>2, <1>3 DEF FreeIn, n
    <1>14. c2[1].free = Cardinality(FreeIn(c2, t))
      BY <1>5, <1>13, FS_RemoveElement
    <1>15. ASSUME NEW i \in 1..n
           PROVE  IsTrunk(c2, t, i)
      <2>1. IsTrunk(c, t, i)
        BY <1>4
      <2>2. c2[t[i]].next = Link(t, i - 1)
        <3>1. c2[t[i]].next = c[t[i]].next
          BY <1>8, <1>10
        <3> QED BY <2>1, <3>1 DEF IsTrunk
      <2>3. Len(c2[t[i]].leaves) <= TrunkCapacity /\ Distinct(c2[t[i]].leaves)
        <3>1. CASE i = n
          <4>2. Len(s) - 1 <= TrunkCapacity
            BY <1>7, <1>a DEF s
          <4>3. c2[t[i]].leaves = Without(s, p)
            BY <3>1, <1>8
          <4> QED BY <4>2, <4>3, <1>6
        <3>2. CASE i # n
          <4>1. c2[t[i]] = c[t[i]]
            BY <3>2, <1>10
          <4> QED BY <4>1, <2>1 DEF IsTrunk
        <3> QED BY <3>1, <3>2
      <2>4. \A j \in 1..n : LeavesOf(c2, t, j) \subseteq LeavesOf(c, t, j)
        BY <1>11, <1>12
      <2>5. LeavesOf(c2, t, i) \cap Items(t) = {}
        BY <2>1, <2>4 DEF IsTrunk
      <2>6. ASSUME NEW j \in 1..n, j # i
            PROVE  LeavesOf(c2, t, i) \cap LeavesOf(c2, t, j) = {}
        <3>1. LeavesOf(c, t, i) \cap LeavesOf(c, t, j) = {}
          BY <2>1, <2>6 DEF IsTrunk, n
        <3> QED BY <3>1, <2>4
      <2> QED BY <2>2, <2>3, <2>5, <2>6 DEF IsTrunk, n
    <1>16. c2[1].next = Link(t, n)
      BY <1>5
    <1> QED BY <1>3, <1>4, <1>13, <1>14, <1>15, <1>16 DEF Chain, n

-----------------------------------------------------------------------------
\* The pages of a book.
LEMMA BookParts ==
    ASSUME NEW b \in Books
    PROVE  /\ b.used \in [DOMAIN b.used -> Data]
           /\ DOMAIN b.used \subseteq PageNumbers \ {1}
           /\ b.trunks \in Seq(PageNumbers \ {1})
           /\ Holding(b) \in SUBSET PageNumbers
           /\ 1 \in Holding(b)
    <1>1. b.used \in UNION {[P -> Data] : P \in SUBSET (PageNumbers \ {1})}
          /\ b.trunks \in Seq(PageNumbers \ {1})
      BY DEF Books
    <1>2. PICK P \in SUBSET (PageNumbers \ {1}) : b.used \in [P -> Data]
      BY <1>1
    <1>3. b.used \in [DOMAIN b.used -> Data] /\ DOMAIN b.used \subseteq PageNumbers \ {1}
      BY <1>2
    <1>4. Items(b.trunks) \subseteq PageNumbers
      BY <1>1, Trunks
    <1>5. 1 \in PageNumbers
      BY PageNumber
    <1> QED BY <1>1, <1>3, <1>4, <1>5 DEF Holding

LEMMA ABook ==
    ASSUME NEW u, u \in [DOMAIN u -> Data], DOMAIN u \subseteq PageNumbers \ {1},
           NEW t \in Seq(PageNumbers \ {1})
    PROVE  /\ [used |-> u, trunks |-> t] \in Books
           /\ [used |-> u, trunks |-> t].used = u /\ [used |-> u, trunks |-> t].trunks = t
    <1>1. u \in UNION {[P -> Data] : P \in SUBSET (PageNumbers \ {1})}
      OBVIOUS
    <1> QED BY <1>1 DEF Books

\* Pages in use are not on the list.
LEMMA ListParts ==
    ASSUME NEW b \in Books, NEW c, NEW n \in PageNumbers, IsList(c, b, n)
    PROVE  /\ Chain(c, b.trunks) /\ IsFiniteSet(FreeIn(c, b.trunks))
           /\ FreeIn(c, b.trunks) \subseteq PageNumbers \ {1}
           /\ \A p \in FreeIn(c, b.trunks) : p \in 2..n /\ p \notin DOMAIN b.used
           /\ \A p \in DOMAIN b.used : p \notin FreeIn(c, b.trunks) /\ p \notin Items(b.trunks)
           /\ \A p \in Items(b.trunks) : p \in FreeIn(c, b.trunks)
    <1>1. Chain(c, b.trunks) /\ FreeIn(c, b.trunks) \subseteq (2..n) \ DOMAIN b.used
      BY DEF IsList
    <1>2. n \in Nat /\ n <= MostPages /\ MostPages \in Nat
      BY PageNumber
    <1>3. 2..n \subseteq PageNumbers \ {1}
      BY <1>2 DEF PageNumbers
    <1>4. IsFiniteSet(2..n)
      BY <1>2, FS_Interval
    <1>5. IsFiniteSet(FreeIn(c, b.trunks))
      BY <1>1, <1>4, FS_Subset
    <1>6. Items(b.trunks) \subseteq FreeIn(c, b.trunks)
      BY DEF FreeIn
    <1> QED BY <1>1, <1>3, <1>5, <1>6

\* Both depend on the pages the book keeps only.
LEMMA ListSame ==
    ASSUME NEW b \in Books, NEW c, NEW c2, NEW n, IsList(c, b, n), RowsKept(c, b),
           SameIn(c, c2, Holding(b))
    PROVE  IsList(c2, b, n) /\ RowsKept(c2, b)
    <1>1. b.trunks \in Seq(PageNumbers \ {1})
      BY BookParts
    <1>2. SameIn(c, c2, {1} \cup Items(b.trunks))
      BY DEF Holding, SameIn
    <1>3. Chain(c2, b.trunks) /\ FreeIn(c2, b.trunks) = FreeIn(c, b.trunks)
      BY <1>1, <1>2, ChainSame DEF IsList
    <1>4. \A q \in DOMAIN b.used : c2[q] = c[q]
      BY DEF Holding, SameIn
    <1> QED BY <1>3, <1>4 DEF IsList, RowsKept

\* The first trunk.
LEMMA FirstTrunk ==
    ASSUME NEW b \in Books, NEW c \in [PageNumbers -> AllContents], NEW n \in PageNumbers,
           IsList(c, b, n)
    PROVE  /\ c[1].free \in Nat /\ c[1].next \in 0..MostPages
           /\ c[1].free = 0 => b.trunks = <<>> /\ c[1].next = 0
           /\ c[1].free # 0 => /\ b.trunks # <<>> /\ c[1].next = b.trunks[Len(b.trunks)]
                               /\ c[1].next \in PageNumbers \ {1}
                               /\ c[1].next \in Items(b.trunks)
                               /\ c[c[1].next] \in AllContents
                               /\ c[c[1].next].leaves \in Seq(PageNumbers)
                               /\ Len(c[c[1].next].leaves) \in Nat
                               /\ Items(c[c[1].next].leaves) \subseteq FreeIn(c, b.trunks)
                               /\ Distinct(c[c[1].next].leaves)
    <1> DEFINE t == b.trunks
    <1>1. t \in Seq(PageNumbers \ {1})
      BY BookParts
    <1>2. Chain(c, t) /\ IsFiniteSet(FreeIn(c, t))
      BY ListParts
    <1>3. c[1] \in AllContents
      BY PageNumber
    <1>4. c[1].free \in Nat /\ c[1].next \in 0..MostPages
      BY <1>3 DEF AllContents
    <1> HIDE DEF t
    <1>5. (c[1].free = 0 <=> t = <<>>) /\ (t = <<>> => c[1].next = 0)
      BY <1>1, <1>2, EmptyList
    <1>6. ASSUME t # <<>>
          PROVE  /\ c[1].next = t[Len(t)] /\ c[1].next \in PageNumbers \ {1}
                 /\ c[1].next \in Items(t)
                 /\ c[c[1].next] \in AllContents
                 /\ c[c[1].next].leaves \in Seq(PageNumbers)
                 /\ Len(c[c[1].next].leaves) \in Nat
                 /\ Items(c[c[1].next].leaves) \subseteq FreeIn(c, t)
                 /\ Distinct(c[c[1].next].leaves)
      <2>1. Len(t) \in Nat /\ Len(t) >= 1 /\ t[Len(t)] \in PageNumbers \ {1}
            /\ t[Len(t)] \in Items(t)
        BY <1>1, <1>6, ItemsFront
      <2>2. c[1].next = t[Len(t)]
        <3>1. c[1].next = Link(t, Len(t))
          BY <1>2 DEF Chain
        <3>2. Len(t) # 0
          BY <2>1
        <3> QED BY <3>1, <3>2 DEF Link
      <2>3. c[c[1].next] \in AllContents
        BY <2>1, <2>2
      <2>4. c[c[1].next].leaves \in Seq(PageNumbers)
        BY <2>3 DEF AllContents
      <2>5. Len(t) \in 1..Len(t)
        BY <2>1
      <2>6. Items(c[c[1].next].leaves) \subseteq FreeIn(c, t)
        BY <2>2, <2>5 DEF FreeIn, LeavesOf
      <2>7. Distinct(c[c[1].next].leaves)
        BY <1>2, <2>2, <2>5 DEF Chain, IsTrunk
      <2> QED BY <2>1, <2>2, <2>3, <2>4, <2>6, <2>7, LenProperties
    <1> QED BY <1>4, <1>5, <1>6 DEF t

\* The contents c have the rows and the list of a book; what becomes of a book.
ListOf(b, c, n) == /\ b \in Books /\ c \in [PageNumbers -> AllContents] /\ n \in PageNumbers
                   /\ IsList(c, b, n) /\ RowsKept(c, b)
RowIs(b, b2, p, v) == /\ b2 \in Books /\ b2.used = [b.used EXCEPT ![p] = v]
                      /\ b2.trunks = b.trunks
NotUsed(b, b2, p, t) == /\ b2 \in Books /\ b2.used = [q \in DOMAIN b.used \ {p} |-> b.used[q]]
                        /\ b2.trunks = t
NowUsed(b, b2, p, v, t) == /\ b2 \in Books
                           /\ b2.used = [q \in DOMAIN b.used \cup {p} |->
                                             IF q = p THEN v ELSE b.used[q]]
                           /\ b2.trunks = t

\* A row is changed.
LEMMA RowChanges ==
    ASSUME NEW b, NEW c, NEW n, ListOf(b, c, n), NEW p \in DOMAIN b.used, NEW v \in Data,
           NEW b2, RowIs(b, b2, p, v)
    PROVE  /\ IsList(With(c, p, Row(v)), b2, n)
           /\ RowsKept(With(c, p, Row(v)), b2)
           /\ Holding(b2) = Holding(b)
    <1> USE DEF ListOf, RowIs
    <1> DEFINE c2 == With(c, p, Row(v))
    <1>0. c2 = [c EXCEPT ![p] = Row(v)]
      BY DEF With
    <1>1. p \in PageNumbers /\ p # 1 /\ p \notin Items(b.trunks)
      BY BookParts, ListParts
    <1>2. b.trunks \in Seq(PageNumbers \ {1})
      BY BookParts
    <1>3. Items(b.trunks) \subseteq PageNumbers /\ 1 \in PageNumbers
      BY <1>2, Trunks, PageNumber
    <1>4. SameIn(c, c2, {1} \cup Items(b.trunks))
      BY <1>0, <1>1, <1>3 DEF SameIn
    <1>5. Chain(c2, b.trunks) /\ FreeIn(c2, b.trunks) = FreeIn(c, b.trunks)
      <2> HIDE DEF c2
      <2> QED BY <1>2, <1>4, ChainSame DEF IsList
    <1>6. DOMAIN b2.used = DOMAIN b.used
      OBVIOUS
    <1>7. IsList(c2, b2, n)
      BY <1>5, <1>6 DEF IsList
    <1>8. RowsKept(c2, b2)
      <2> SUFFICES ASSUME NEW q \in DOMAIN b.used
                   PROVE  c2[q].row = b2.used[q]
        BY <1>6 DEF RowsKept
      <2>1. q \in PageNumbers
        BY BookParts
      <2>2. CASE q = p
        <3>1. c2[q] = Row(v)
          BY <2>1, <2>2, <1>0
        <3>2. Row(v).row = v
          BY DEF Row, Contents
        <3>3. b2.used[q] = v
          BY <2>2
        <3> QED BY <3>1, <3>2, <3>3
      <2>3. CASE q # p
        <3>1. c2[q] = c[q]
          BY <2>1, <2>3, <1>0
        <3>2. b2.used[q] = b.used[q]
          BY <2>3
        <3> QED BY <3>1, <3>2 DEF RowsKept
      <2> QED BY <2>2, <2>3
    <1>9. Holding(b2) = Holding(b)
      BY <1>6 DEF Holding
    <1> QED BY <1>7, <1>8, <1>9

-----------------------------------------------------------------------------
\* A page that is added to the list becomes the first trunk.
Becomes(c, c2, b, n, p) == /\ b \in Books /\ n \in PageNumbers /\ p \in DOMAIN b.used
                           /\ IsList(c, b, n) /\ TrunkAdded(c, c2, b.trunks, p)
Became(c, c2, b, p) == /\ Chain(c2, Append(b.trunks, p))
                       /\ FreeIn(c2, Append(b.trunks, p)) = FreeIn(c, b.trunks) \cup {p}
LEMMA BecomesTrunk ==
    ASSUME NEW b, NEW c, NEW c2, NEW n, NEW p, Becomes(c, c2, b, n, p)
    PROVE  Became(c, c2, b, p)
    <1> DEFINE t == b.trunks
    <1>1. /\ t \in Seq(PageNumbers \ {1}) /\ Chain(c, t) /\ IsFiniteSet(FreeIn(c, t))
          /\ p \in PageNumbers \ {1} /\ p \notin FreeIn(c, t) /\ TrunkAdded(c, c2, t, p)
      BY BookParts, ListParts DEF Becomes
    <1> HIDE DEF t
    <1>2. Chain(c2, Append(t, p)) /\ FreeIn(c2, Append(t, p)) = FreeIn(c, t) \cup {p}
      BY <1>1, PushTrunk
    <1> QED BY <1>2 DEF t, Became

\* A page that was in use becomes the first trunk,
FreedTrunk(c, p, x, y) == /\ x.next = p /\ x.free = c[1].free + 1
                          /\ y.next = c[1].next /\ y.leaves = <<>>
LEMMA FreesTrunk ==
    ASSUME NEW b, NEW c, NEW n, ListOf(b, c, n), NEW p \in DOMAIN b.used, p <= n,
           NEW x, NEW y, FreedTrunk(c, p, x, y),
           NEW b2, NotUsed(b, b2, p, Append(b.trunks, p))
    PROVE  /\ IsList(With(With(c, 1, x), p, y), b2, n)
           /\ RowsKept(With(With(c, 1, x), p, y), b2)
           /\ Holding(b2) = Holding(b)
    <1> USE DEF ListOf, FreedTrunk
    <1> DEFINE c2 == With(With(c, 1, x), p, y)
    <1>1. p \in PageNumbers \ {1} /\ p \notin FreeIn(c, b.trunks) /\ 1 \in PageNumbers
      BY BookParts, ListParts, PageNumber
    <1>2. b.trunks \in Seq(PageNumbers \ {1}) /\ Chain(c, b.trunks)
          /\ IsFiniteSet(FreeIn(c, b.trunks))
      BY BookParts, ListParts
    <1>3. /\ c2[1] = x /\ c2[p] = y
          /\ \A q \in PageNumbers \ {1, p} : c2[q] = c[q]
      BY <1>1 DEF With
    <1> HIDE DEF c2
    <1>4. \A q \in Items(b.trunks) : c2[q] = c[q]
      <2>1. Items(b.trunks) \subseteq PageNumbers \ {1, p}
        BY <1>1, <1>2, Trunks, ListParts
      <2> QED BY <2>1, <1>3
    <1>5. Chain(c2, Append(b.trunks, p))
          /\ FreeIn(c2, Append(b.trunks, p)) = FreeIn(c, b.trunks) \cup {p}
      <2>1. TrunkAdded(c, c2, b.trunks, p)
        BY <1>3, <1>4 DEF TrunkAdded
      <2>2. Becomes(c, c2, b, n, p)
        BY <2>1 DEF Becomes
      <2>3. Became(c, c2, b, p)
        BY <2>2, BecomesTrunk
      <2> QED BY <2>3, Zenon DEF Became
    <1>6. DOMAIN b2.used = DOMAIN b.used \ {p} /\ b2.trunks = Append(b.trunks, p)
      BY DEF NotUsed
    <1>7. p \in 2..n
      <2>1. p \in Nat /\ p >= 1 /\ p # 1 /\ n \in Nat
        BY <1>1, PageNumber
      <2> QED BY <2>1
    <1>8. IsList(c2, b2, n)
      BY <1>5, <1>6, <1>7 DEF IsList
    <1>9. RowsKept(c2, b2)
      <2> SUFFICES ASSUME NEW q \in DOMAIN b.used \ {p}
                   PROVE  c2[q].row = b2.used[q]
        BY <1>6 DEF RowsKept
      <2>1. q \in PageNumbers \ {1, p}
        BY BookParts
      <2>2. b2.used[q] = b.used[q]
        BY DEF NotUsed
      <2> QED BY <2>1, <2>2, <1>3 DEF RowsKept
    <1>10. Items(b2.trunks) = Items(b.trunks) \cup {p}
      BY <1>1, <1>2, <1>6, ItemsAppended
    <1>11. Holding(b2) = Holding(b)
      BY <1>6, <1>10 DEF Holding
    <1> QED BY <1>8, <1>9, <1>11 DEF c2

\* ... or a leaf of it.
FreedLeaf(c, k, p, x, y) == /\ k = c[1].next /\ c[1].free # 0
                            /\ Len(c[k].leaves) < TrunkCapacity
                            /\ x.next = k /\ x.free = c[1].free + 1
                            /\ y.next = c[k].next /\ y.leaves = Append(c[k].leaves, p)
LEMMA FreesLeaf ==
    ASSUME NEW b, NEW c, NEW n, ListOf(b, c, n), NEW p \in DOMAIN b.used, p <= n,
           NEW k, NEW x, NEW y, FreedLeaf(c, k, p, x, y),
           NEW b2, NotUsed(b, b2, p, b.trunks)
    PROVE  /\ IsList(With(With(c, 1, x), k, y), b2, n)
           /\ RowsKept(With(With(c, 1, x), k, y), b2)
           /\ Holding(b2) = Holding(b) \ {p} /\ k \in Holding(b) /\ k # p /\ p # 1
    <1> USE DEF ListOf
    <1> DEFINE c2 == With(With(c, 1, x), k, y)
               t == b.trunks
    <1>1. p \in PageNumbers \ {1} /\ p \notin FreeIn(c, t) /\ p \notin Items(t)
          /\ 1 \in PageNumbers
      BY BookParts, ListParts, PageNumber
    <1>2. t \in Seq(PageNumbers \ {1}) /\ Chain(c, t) /\ IsFiniteSet(FreeIn(c, t))
      BY BookParts, ListParts
    <1>3. t # <<>> /\ k = t[Len(t)] /\ k \in PageNumbers \ {1} /\ k \in Items(t)
          /\ c[k].leaves \in Seq(PageNumbers)
      BY FirstTrunk DEF FreedLeaf
    <1>4. /\ c2[1] = x /\ c2[k] = y
          /\ \A q \in PageNumbers \ {1, k} : c2[q] = c[q]
      BY <1>1, <1>3 DEF With
    <1>a. /\ Len(c[k].leaves) < TrunkCapacity
          /\ x.next = k /\ x.free = c[1].free + 1
          /\ y.next = c[k].next /\ y.leaves = Append(c[k].leaves, p)
          /\ c[1].next = k
      BY DEF FreedLeaf
    <1> HIDE DEF c2
    <1>5. \A q \in Items(t) \ {k} : c2[q] = c[q]
      <2>1. Items(t) \subseteq PageNumbers \ {1}
        BY <1>2, Trunks
      <2> QED BY <2>1, <1>4
    <1> HIDE DEF t
    <1>6. Chain(c2, t) /\ FreeIn(c2, t) = FreeIn(c, t) \cup {p}
      <2>1. LeafAdded(c, c2, t, p)
        BY <1>3, <1>4, <1>5, <1>a DEF LeafAdded
      <2> QED BY <2>1, <1>1, <1>2, <1>3, PushLeaf
    <1>7. DOMAIN b2.used = DOMAIN b.used \ {p} /\ b2.trunks = t
      BY DEF t, NotUsed
    <1>8. p \in 2..n
      <2>1. p \in Nat /\ p >= 1 /\ p # 1 /\ n \in Nat
        BY <1>1, PageNumber
      <2> QED BY <2>1
    <1>9. IsList(c2, b2, n)
      BY <1>6, <1>7, <1>8 DEF IsList, t
    <1>10. RowsKept(c2, b2)
      <2> SUFFICES ASSUME NEW q \in DOMAIN b.used \ {p}
                   PROVE  c2[q].row = b2.used[q]
        BY <1>7 DEF RowsKept
      <2>1. q \in PageNumbers \ {1, k}
        BY <1>3, BookParts, ListParts DEF t
      <2>2. b2.used[q] = b.used[q]
        BY DEF NotUsed
      <2> QED BY <2>1, <2>2, <1>4 DEF RowsKept
    <1>11. Holding(b2) = Holding(b) \ {p} /\ k \in Holding(b) /\ k # p /\ p # 1
      BY <1>1, <1>3, <1>7 DEF Holding, t
    <1> QED BY <1>9, <1>10, <1>11 DEF c2

\* The first trunk is used,
TakenTrunk(c, k, x) == /\ k = c[1].next /\ c[1].free # 0 /\ c[k].leaves = <<>>
                       /\ x.next = c[k].next /\ x.free = c[1].free - 1
LEMMA UsesTrunk ==
    ASSUME NEW b, NEW c, NEW n, ListOf(b, c, n), NEW k, NEW x, TakenTrunk(c, k, x),
           NEW z, NEW v \in Data,
           NEW b2, NowUsed(b, b2, k, v, SubSeq(b.trunks, 1, Len(b.trunks) - 1))
    PROVE  /\ IsList(With(With(With(c, 1, x), k, z), k, Row(v)), b2, n)
           /\ RowsKept(With(With(With(c, 1, x), k, z), k, Row(v)), b2)
           /\ Holding(b2) = Holding(b) /\ k \in Holding(b) /\ k \notin DOMAIN b.used
    <1> USE DEF ListOf
    <1> DEFINE c2 == With(With(With(c, 1, x), k, z), k, Row(v))
               t == b.trunks
               u == SubSeq(t, 1, Len(t) - 1)
    <1>1. t \in Seq(PageNumbers \ {1}) /\ Chain(c, t) /\ IsFiniteSet(FreeIn(c, t))
      BY BookParts, ListParts
    <1>2. t # <<>> /\ k = t[Len(t)] /\ k \in PageNumbers \ {1} /\ k \in Items(t)
          /\ 1 \in PageNumbers
      BY FirstTrunk, PageNumber DEF TakenTrunk
    <1>3. /\ c2[1] = x /\ c2[k] = Row(v)
          /\ \A q \in PageNumbers \ {1, k} : c2[q] = c[q]
      BY <1>2 DEF With
    <1>4. /\ c[k].leaves = <<>> /\ x.next = c[k].next /\ x.free = c[1].free - 1
          /\ b2.used = [q \in DOMAIN b.used \cup {k} |-> IF q = k THEN v ELSE b.used[q]]
          /\ b2.trunks = u /\ b2 \in Books
      BY DEF TakenTrunk, NowUsed
    <1>5. Items(t) = Items(u) \cup {k}
      BY <1>1, <1>2, ItemsFront
    <1>a. Items(t) \subseteq PageNumbers \ {1}
      BY <1>1, Trunks
    <1> HIDE DEF c2, u
    <1>6. Chain(c2, u) /\ FreeIn(c2, u) = FreeIn(c, t) \ {k}
      <2>1. \A q \in Items(t) \ {k} : c2[q] = c[q]
        BY <1>3, <1>a
      <2> HIDE DEF t
      <2>2. TrunkTaken(c, c2, t)
        BY <2>1, <1>2, <1>3, <1>4 DEF TrunkTaken
      <2>3. /\ Chain(c2, SubSeq(t, 1, Len(t) - 1))
            /\ FreeIn(c2, SubSeq(t, 1, Len(t) - 1)) = FreeIn(c, t) \ {t[Len(t)]}
        BY <2>2, <1>1, <1>2, PopTrunk
      <2> QED BY <2>3, <1>2 DEF u
    <1>7. DOMAIN b2.used = DOMAIN b.used \cup {k}
      BY <1>4
    <1>8. IsList(c2, b2, n)
      BY <1>4, <1>6, <1>7 DEF IsList
    <1>9. k \notin DOMAIN b.used
      BY <1>2, ListParts
    <1>10. RowsKept(c2, b2)
      <2> SUFFICES ASSUME NEW q \in DOMAIN b.used \cup {k}
                   PROVE  c2[q].row = b2.used[q]
        BY <1>7 DEF RowsKept
      <2>1. CASE q = k
        <3>1. Row(v).row = v
          BY DEF Row, Contents
        <3> QED BY <3>1, <2>1, <1>3, <1>4
      <2>2. CASE q # k
        <3>1. q \in DOMAIN b.used /\ q \in PageNumbers \ {1, k}
          BY <2>2, BookParts
        <3>2. b2.used[q] = b.used[q]
          BY <2>2, <1>4
        <3> QED BY <3>1, <3>2, <1>3 DEF RowsKept
      <2> QED BY <2>1, <2>2
    <1>11. Holding(b2) = Holding(b) /\ k \in Holding(b)
      BY <1>4, <1>5, <1>7 DEF Holding
    <1> QED BY <1>8, <1>9, <1>10, <1>11 DEF c2

\* ... or one of its leaves,
TakenLeaf(c, k, p, x, y) == /\ k = c[1].next /\ c[1].free # 0 /\ p \in Items(c[k].leaves)
                            /\ x.next = k /\ x.free = c[1].free - 1
                            /\ y.next = c[k].next /\ y.leaves = Without(c[k].leaves, p)
LEMMA UsesLeaf ==
    ASSUME NEW b, NEW c, NEW n, ListOf(b, c, n), NEW k, NEW p, NEW x, NEW y,
           TakenLeaf(c, k, p, x, y), NEW v \in Data,
           NEW b2, NowUsed(b, b2, p, v, b.trunks)
    PROVE  /\ IsList(With(With(With(c, 1, x), k, y), p, Row(v)), b2, n)
           /\ RowsKept(With(With(With(c, 1, x), k, y), p, Row(v)), b2)
           /\ Holding(b2) = Holding(b) \cup {p} /\ p \notin Holding(b) /\ p \in 2..n
           /\ p \notin DOMAIN b.used /\ k \in Holding(b)
    <1> USE DEF ListOf
    <1> DEFINE c2 == With(With(With(c, 1, x), k, y), p, Row(v))
               t == b.trunks
    <1>1. t \in Seq(PageNumbers \ {1}) /\ Chain(c, t) /\ IsFiniteSet(FreeIn(c, t))
      BY BookParts, ListParts
    <1>2. t # <<>> /\ k = t[Len(t)] /\ k \in PageNumbers \ {1} /\ k \in Items(t)
          /\ 1 \in PageNumbers /\ c[k].leaves \in Seq(PageNumbers) /\ p \in FreeIn(c, t)
      BY FirstTrunk, PageNumber DEF TakenLeaf
    <1>a. Items(t) \subseteq PageNumbers \ {1}
      BY <1>1, Trunks
    <1>3. p \in PageNumbers \ {1} /\ p \in 2..n /\ p \notin DOMAIN b.used
      BY <1>2, ListParts
    <1>4. /\ x.next = c[1].next /\ x.free = c[1].free - 1
          /\ y.next = c[k].next /\ y.leaves = Without(c[k].leaves, p)
          /\ p \in Items(c[k].leaves)
          /\ b2.used = [q \in DOMAIN b.used \cup {p} |-> IF q = p THEN v ELSE b.used[q]]
          /\ b2 \in Books /\ b2.trunks = t
      BY DEF TakenLeaf, NowUsed
    <1>5. /\ c2[p] = Row(v) /\ c2[1] = x /\ (p # k => c2[k] = y)
          /\ \A q \in PageNumbers \ {1, k, p} : c2[q] = c[q]
      BY <1>2, <1>3 DEF With
    <1> HIDE DEF c2
    <1>b. p \notin Items(t)
      <2>1. IsTrunk(c, t, Len(t))
        <3>1. Len(t) \in 1..Len(t)
          <4>1. Len(t) \in Nat /\ Len(t) >= 1
            BY <1>1, <1>2, ItemsFront
          <4> QED BY <4>1
        <3> QED BY <3>1, <1>1 DEF Chain
      <2>2. p \in LeavesOf(c, t, Len(t))
        BY <1>2, <1>4 DEF LeavesOf
      <2> QED BY <2>1, <2>2 DEF IsTrunk
    <1>6. Chain(c2, t) /\ FreeIn(c2, t) = FreeIn(c, t) \ {p}
      <2>1. \A q \in Items(t) \ {k} : c2[q] = c[q]
        BY <1>5, <1>a, <1>b
      <2>a. c2[k] = y
        BY <1>2, <1>5, <1>b
      <2> HIDE DEF t
      <2>2. LeafTaken(c, c2, t, p)
        BY <2>1, <2>a, <1>2, <1>4, <1>5 DEF LeafTaken
      <2> QED BY <2>2, <1>1, <1>2, PopLeaf
    <1>7. DOMAIN b2.used = DOMAIN b.used \cup {p} /\ b2.trunks = t
      BY <1>4
    <1>8. IsList(c2, b2, n)
      BY <1>6, <1>7 DEF IsList
    <1>10. RowsKept(c2, b2)
      <2> SUFFICES ASSUME NEW q \in DOMAIN b.used \cup {p}
                   PROVE  c2[q].row = b2.used[q]
        BY <1>7 DEF RowsKept
      <2>1. CASE q = p
        <3>1. Row(v).row = v
          BY DEF Row, Contents
        <3> QED BY <3>1, <2>1, <1>4, <1>5
      <2>2. CASE q # p
        <3>1. q \in DOMAIN b.used /\ q \in PageNumbers \ {1, p}
          BY <2>2, BookParts
        <3>2. q # k
          BY <3>1, <1>2, ListParts
        <3>3. b2.used[q] = b.used[q]
          BY <3>1, <2>2, <1>4
        <3> QED BY <3>1, <3>2, <3>3, <1>5 DEF RowsKept
      <2> QED BY <2>1, <2>2
    <1>11. Holding(b2) = Holding(b) \cup {p} /\ p \notin Holding(b) /\ k \in Holding(b)
      BY <1>2, <1>3, <1>7, <1>b DEF Holding
    <1> QED BY <1>3, <1>8, <1>10, <1>11 DEF c2

\* ... or a new page at the end.
LEMMA UsesNew ==
    ASSUME NEW b, NEW c, NEW n, ListOf(b, c, n), c[1].free = 0,
           \A q \in DOMAIN b.used : q <= n, NEW v \in Data,
           NEW p \in PageNumbers, p = n + 1, NEW b2, NowUsed(b, b2, p, v, b.trunks)
    PROVE  /\ IsList(With(c, p, Row(v)), b2, p)
           /\ RowsKept(With(c, p, Row(v)), b2)
           /\ Holding(b2) = Holding(b) \cup {p}
           /\ p \notin DOMAIN b.used
    <1> USE DEF ListOf
    <1> DEFINE c2 == With(c, p, Row(v))
               t == b.trunks
    <1>1. t \in Seq(PageNumbers \ {1}) /\ Chain(c, t) /\ IsFiniteSet(FreeIn(c, t))
      BY BookParts, ListParts
    <1>2. t = <<>> /\ FreeIn(c, t) = {} /\ 1 \in PageNumbers
      BY <1>1, EmptyList, PageNumber
    <1>3. p \in PageNumbers /\ p # 1 /\ p \notin DOMAIN b.used
      <2>1. n \in Nat /\ n >= 1 /\ \A q \in PageNumbers : q \in Nat
        BY PageNumber
      <2>2. p # 1
        BY <2>1
      <2>3. p \notin DOMAIN b.used
        <3>1. ~(p <= n)
          BY <2>1
        <3> QED BY <3>1
      <2> QED BY <2>2, <2>3
    <1>4. /\ c2[p] = Row(v) /\ \A q \in PageNumbers \ {p} : c2[q] = c[q]
          /\ b2.used = [q \in DOMAIN b.used \cup {p} |-> IF q = p THEN v ELSE b.used[q]]
          /\ b2 \in Books /\ b2.trunks = t
      BY <1>3 DEF With, NowUsed
    <1> HIDE DEF c2
    <1>5. Items(t) = {}
      BY <1>2 DEF FreeIn
    <1>6. Chain(c2, t) /\ FreeIn(c2, t) = {}
      <2>1. SameIn(c, c2, {1} \cup Items(t))
        BY <1>2, <1>3, <1>4, <1>5 DEF SameIn
      <2> HIDE DEF t
      <2>2. Chain(c2, t) /\ FreeIn(c2, t) = FreeIn(c, t)
        BY <2>1, <1>1, ChainSame
      <2> QED BY <2>2, <1>2
    <1>7. DOMAIN b2.used = DOMAIN b.used \cup {p} /\ b2.trunks = t
      BY <1>4
    <1>8. IsList(c2, b2, p)
      BY <1>6, <1>7 DEF IsList
    <1>9. RowsKept(c2, b2)
      <2> SUFFICES ASSUME NEW q \in DOMAIN b.used \cup {p}
                   PROVE  c2[q].row = b2.used[q]
        BY <1>7 DEF RowsKept
      <2>1. CASE q = p
        <3>1. Row(v).row = v
          BY DEF Row, Contents
        <3> QED BY <3>1, <2>1, <1>4
      <2>2. CASE q # p
        <3>1. q \in DOMAIN b.used /\ q \in PageNumbers \ {p}
          BY <2>2, BookParts
        <3>2. b2.used[q] = b.used[q]
          BY <3>1, <2>2, <1>4
        <3> QED BY <3>1, <3>2, <1>4 DEF RowsKept
      <2> QED BY <2>1, <2>2
    <1>10. Holding(b2) = Holding(b) \cup {p}
      BY <1>7 DEF Holding
    <1> QED BY <1>3, <1>8, <1>9, <1>10 DEF c2

-----------------------------------------------------------------------------
\* What is kept: the contents old when the transaction began and mid when the
\* statement began have the rows and the list of free pages of those times,
Remembered(old, mid) ==
    /\ RowsKept(old, atBegin)
    /\ IsList(old, atBegin, pager.origDbSize)
    /\ pager.stmt.inUse /\ inStmt \cap Holding(atStmt) = {}
       => RowsKept(mid, atStmt) /\ IsList(mid, atStmt, pager.stmt.size)

\* ... and the journals, the file and the cache together still have them.
InTransaction ==
    \E old, mid :
        /\ Remembered(old, mid)
        /\ PagerGood(dbFile, pager, View(dbFile, pager), Holding(Book), Holding(atBegin),
                     Holding(atStmt), old, mid, dropped, inStmt, early)

\* Between transactions the file has everything.
BetweenTransactions ==
    /\ pager.journal = <<>> /\ pager.inJournal = {} /\ ~pager.stmt.inUse
    /\ dropped = {} /\ inStmt = {}
    /\ Len(dbFile) = pager.dbSize
    /\ \A p \in PageNumbers : ~View(dbFile, pager)[p].dirty /\ ~View(dbFile, pager)[p].inJournal
    /\ NowKept(dbFile, pager, View(dbFile, pager), Holding(Book))

Typed ==
    /\ GoodFile(dbFile) /\ GoodPager(pager) /\ 1 \in DOMAIN pager.cache
    /\ Book \in Books /\ atBegin \in Books /\ atStmt \in Books
    /\ inStmt \subseteq dropped /\ dropped \subseteq PageNumbers /\ early \subseteq PageNumbers
    /\ calls \in 0..MaxCalls

Kept ==
    /\ Typed
    /\ twice = {}
    /\ RowsKept(HeldBy(pager), Book)
    /\ IsList(HeldBy(pager), Book, pager.dbSize)
    /\ IF pager.state = "shared" THEN BetweenTransactions ELSE InTransaction

FreePagesInv == forgotten = {} => Kept

\* What the pager holds is what sqlite3pager_get finds.
LEMMA HeldIs ==
    ASSUME GoodFile(dbFile), NEW g, GoodPager(g)
    PROVE  /\ HeldBy(g) \in [PageNumbers -> AllContents]
           /\ \A p \in PageNumbers : Content(g, p) = HeldBy(g)[p]
    <1>1. \A p \in PageNumbers : View(dbFile, g)[p] \in Entries
      BY ViewType
    <1>2. \A p \in PageNumbers : View(dbFile, g)[p].content \in AllContents
      BY <1>1 DEF Entries
    <1>3. \A p \in PageNumbers : Content(g, p) = View(dbFile, g)[p].content
      BY ContentIs
    <1> QED BY <1>2, <1>3 DEF HeldBy

\* A call that changes a page.
Calls(old, mid) ==
    /\ dbFile' = dbFile /\ atBegin' = atBegin /\ atStmt' = atStmt /\ early' = early
    /\ Same(pager, pager')
    /\ Book' \in Books /\ calls' \in 0..MaxCalls /\ twice' = {}
    /\ inStmt \subseteq inStmt' /\ inStmt' \subseteq dropped' /\ dropped' \subseteq PageNumbers
    /\ RowsKept(HeldBy(pager'), Book')
    /\ IsList(HeldBy(pager'), Book', pager'.dbSize)
    /\ Remembered(old, mid)
    /\ PagerGood(dbFile, pager', View(dbFile, pager'), Holding(Book'), Holding(atBegin),
                 Holding(atStmt), old, mid, dropped', inStmt', early)

LEMMA CallKeeps ==
    ASSUME Kept, pager.state # "shared", NEW old, NEW mid, Calls(old, mid)
    PROVE  Kept'
    <1> USE DEF Calls
    <1>1. Typed
      BY DEF Kept
    <1>2. GoodPager(pager') /\ 1 \in DOMAIN pager'.cache /\ pager'.state # "shared"
      BY DEF PagerGood
    <1>3. Typed'
      BY <1>1, <1>2 DEF Typed
    <1>4. HeldBy(pager)' = HeldBy(pager')
      BY DEF HeldBy
    <1>5. Remembered(old, mid)'
      <2>1. /\ RowsKept(old, atBegin) /\ IsList(old, atBegin, pager.origDbSize)
            /\ pager.stmt.inUse /\ inStmt \cap Holding(atStmt) = {}
               => RowsKept(mid, atStmt) /\ IsList(mid, atStmt, pager.stmt.size)
        BY DEF Remembered
      <2>2. /\ pager'.origDbSize = pager.origDbSize /\ pager'.stmt.inUse = pager.stmt.inUse
            /\ pager'.stmt.size = pager.stmt.size
        BY DEF Same
      <2>3. inStmt' \cap Holding(atStmt) = {} => inStmt \cap Holding(atStmt) = {}
        OBVIOUS
      <2> QED BY <2>1, <2>2, <2>3 DEF Remembered
    <1>6. InTransaction'
      BY <1>5 DEF InTransaction
    <1> QED BY <1>2, <1>3, <1>4, <1>6 DEF Kept

\* What a call starts from.
LEMMA InCall ==
    ASSUME Kept, Call
    PROVE  /\ pager.state # "shared" /\ Typed /\ twice = {} /\ calls' \in 0..MaxCalls
           /\ HeldBy(pager) \in [PageNumbers -> AllContents]
           /\ \A p \in PageNumbers : Content(pager, p) = HeldBy(pager)[p]
           /\ RowsKept(HeldBy(pager), Book)
           /\ IsList(HeldBy(pager), Book, pager.dbSize)
           /\ Holding(Book) \in SUBSET PageNumbers /\ Holding(atBegin) \in SUBSET PageNumbers
           /\ Holding(atStmt) \in SUBSET PageNumbers /\ 1 \in Holding(Book)
           /\ pager.dbSize \in PageNumbers /\ pager.dbSize \in Nat
           /\ \A p \in Holding(Book) : p <= pager.dbSize /\ p <= pager.dbSize + 1
           /\ \E old, mid :
                /\ Remembered(old, mid)
                /\ PagerGood(dbFile, pager, View(dbFile, pager), Holding(Book), Holding(atBegin),
                             Holding(atStmt), old, mid, dropped, inStmt, early)
    <1>1. /\ Typed /\ RowsKept(HeldBy(pager), Book) /\ IsList(HeldBy(pager), Book, pager.dbSize)
          /\ twice = {}
      BY DEF Kept
    <1>2. pager.state # "shared"
      BY DEF Call, InTrans
    <1>3. calls' \in 0..MaxCalls
      <2>1. calls \in 0..MaxCalls /\ calls < MaxCalls /\ calls' = calls + 1 /\ MaxCalls \in Nat
        BY <1>1, FreePagesAssumption DEF Typed, Call
      <2> QED BY <2>1
    <1>4. GoodFile(dbFile) /\ GoodPager(pager)
      BY <1>1 DEF Typed
    <1>5. /\ HeldBy(pager) \in [PageNumbers -> AllContents]
          /\ \A p \in PageNumbers : Content(pager, p) = HeldBy(pager)[p]
      BY <1>4, HeldIs
    <1>6. /\ Holding(Book) \in SUBSET PageNumbers /\ Holding(atBegin) \in SUBSET PageNumbers
          /\ Holding(atStmt) \in SUBSET PageNumbers /\ 1 \in Holding(Book)
      BY <1>1, BookParts DEF Typed
    <1>7. pager.dbSize \in PageNumbers /\ pager.dbSize \in Nat
      BY <1>4, PagerFields
    <1>8. InTransaction
      BY <1>2 DEF Kept
    <1>9. NowKept(dbFile, pager, View(dbFile, pager), Holding(Book))
      BY <1>8 DEF InTransaction, PagerGood
    <1>10. \A p \in Holding(Book) : p <= pager.dbSize /\ p <= pager.dbSize + 1
      <2>1. \A p \in Holding(Book) : p <= pager.dbSize /\ p \in Nat
        BY <1>6, <1>9, PageNumber DEF NowKept
      <2> QED BY <2>1, <1>7
    <1>11. \E old, mid :
             /\ Remembered(old, mid)
             /\ PagerGood(dbFile, pager, View(dbFile, pager), Holding(Book), Holding(atBegin),
                          Holding(atStmt), old, mid, dropped, inStmt, early)
      BY <1>8 DEF InTransaction
    <1> QED BY <1>1, <1>2, <1>3, <1>5, <1>6, <1>7, <1>10, <1>11

\* A row changes.
LEMMA ChangeRowKeeps ==
    ASSUME Kept, ChangeRow
    PROVE  Kept'
    <1>1. Call
      BY DEF ChangeRow
    <1>2. PICK old, mid :
             /\ Remembered(old, mid)
             /\ PagerGood(dbFile, pager, View(dbFile, pager), Holding(Book), Holding(atBegin),
                          Holding(atStmt), old, mid, dropped, inStmt, early)
      BY <1>1, InCall
    <1>3. PICK p \in DOMAIN used, v \in Data :
             /\ pager' = Written(pager, p, Row(v)) /\ used' = [used EXCEPT ![p] = v]
      BY DEF ChangeRow
    <1>4. /\ dbFile' = dbFile /\ trunks' = trunks /\ atBegin' = atBegin /\ atStmt' = atStmt
          /\ dropped' = dropped /\ inStmt' = inStmt /\ early' = early /\ twice' = twice
      BY DEF ChangeRow
    <1>5. /\ GoodFile(dbFile) /\ GoodPager(pager) /\ Book \in Books /\ twice = {}
          /\ inStmt \subseteq dropped /\ dropped \subseteq PageNumbers
      BY <1>1, InCall DEF Typed
    <1>6. Book.used = used /\ Book.trunks = trunks
      BY DEF Book
    <1>7. /\ used \in [DOMAIN used -> Data] /\ DOMAIN used \subseteq PageNumbers \ {1}
          /\ trunks \in Seq(PageNumbers \ {1})
      BY <1>5, <1>6, BookParts
    <1>8. p \in PageNumbers /\ p \in Holding(Book) /\ p <= pager.dbSize /\ p <= pager.dbSize + 1
      <2>1. p \in Holding(Book)
        BY <1>6 DEF Holding
      <2> QED BY <2>1, <1>1, <1>7, InCall
    <1>9. Row(v) \in AllContents
      BY ContentsType
    <1>10. /\ PagerGood(dbFile, pager', View(dbFile, pager'), Holding(Book) \cup {p},
                        Holding(atBegin), Holding(atStmt), old, mid, dropped, inStmt, early)
           /\ HeldBy(pager') = With(HeldBy(pager), p, Row(v))
           /\ Same(pager, pager')
           /\ pager'.dbSize = IF p > pager.dbSize THEN p ELSE pager.dbSize
      <2>1. GoodIn(pager, Holding(Book), Holding(atBegin), Holding(atStmt), old, mid, dropped, inStmt, early)
        BY <1>1, <1>2, InCall DEF GoodIn
      <2>2. /\ GoodIn(pager', Holding(Book) \cup {p}, Holding(atBegin), Holding(atStmt),
                      old, mid, dropped, inStmt, early)
            /\ HeldBy(pager') = With(HeldBy(pager), p, Row(v))
            /\ Same(pager, pager')
            /\ pager'.dbSize = IF p > pager.dbSize THEN p ELSE pager.dbSize
        <3> DEFINE w == Written(pager, p, Row(v))
                   hb == Holding(atBegin)
                   hs == Holding(atStmt)
                   h == Holding(Book)
                   c == Row(v)
        <3> HIDE DEF hb, hs, h, c
        <3>1. Writing(pager, p, c, Written(pager, p, c), h, hb, hs, old, mid, dropped, inStmt, early)
          BY <2>1, <1>5, <1>8, <1>9, WrittenGood DEF hb, hs, h, c
        <3> QED BY <3>1, <1>3 DEF Writing, hb, hs, h, c
      <2> QED BY <2>2 DEF GoodIn
    <1>11. pager'.dbSize = pager.dbSize
      BY <1>8, <1>10, <1>5, PagerFields, PageNumber
    <1>12. Book' \in Books /\ Book'.used = [Book.used EXCEPT ![p] = v] /\ Book'.trunks = Book.trunks
      <2>1. used' \in [DOMAIN used' -> Data] /\ DOMAIN used' \subseteq PageNumbers \ {1}
        BY <1>3, <1>7
      <2>2. Book' = [used |-> used', trunks |-> trunks]
        BY <1>4 DEF Book
      <2> QED BY <2>1, <2>2, <1>3, <1>6, <1>7, ABook
    <1>13. /\ IsList(HeldBy(pager'), Book', pager'.dbSize)
           /\ RowsKept(HeldBy(pager'), Book')
           /\ Holding(Book') = Holding(Book)
      <2> DEFINE b == Book
                 b2 == Book'
                 c == HeldBy(pager)
      <2>1. ListOf(b, c, pager.dbSize) /\ p \in DOMAIN b.used /\ RowIs(b, b2, p, v)
        BY <1>1, <1>5, <1>6, <1>12, InCall DEF ListOf, RowIs
      <2> HIDE DEF b, b2, c
      <2>2. /\ IsList(With(c, p, Row(v)), b2, pager.dbSize)
            /\ RowsKept(With(c, p, Row(v)), b2) /\ Holding(b2) = Holding(b)
        BY <2>1, RowChanges
      <2> QED BY <2>2, <1>10, <1>11 DEF b, b2, c
    <1>14. Holding(Book) \cup {p} = Holding(Book')
      BY <1>8, <1>13
    <1>15. Calls(old, mid)
      <2>1. calls' \in 0..MaxCalls
        BY <1>1, InCall
      <2> QED BY <2>1, <1>2, <1>4, <1>5, <1>10, <1>12, <1>13, <1>14 DEF Calls
    <1> QED BY <1>1, <1>15, InCall, CallKeeps

-----------------------------------------------------------------------------
\* The steps of a call.
Good(g, h, old, mid, d, s, ea) ==
    /\ h \in SUBSET PageNumbers
    /\ PagerGood(dbFile, g, View(dbFile, g), h, Holding(atBegin), Holding(atStmt),
                 old, mid, d, s, ea)
\* g2 is g but for the contents x of page p.
OneWrite(g, g2, p, x) ==
    /\ HeldBy(g2) = With(HeldBy(g), p, x)
    /\ Same(g, g2)
    /\ \A q \in PageNumbers \ {p} : View(dbFile, g2)[q] = View(dbFile, g)[q]

LEMMA WriteStep ==
    ASSUME Typed, NEW g, NEW h, NEW old, NEW mid, NEW d, NEW s, NEW ea, Good(g, h, old, mid, d, s, ea),
           NEW p \in PageNumbers, p <= g.dbSize + 1, NEW c \in AllContents
    PROVE  /\ Good(Written(g, p, c), h \cup {p}, old, mid, d, s, ea)
           /\ OneWrite(g, Written(g, p, c), p, c)
           /\ Written(g, p, c).dbSize = IF p > g.dbSize THEN p ELSE g.dbSize
    <1> DEFINE hb == Holding(atBegin)
               hs == Holding(atStmt)
               w == Written(g, p, c)
    <1>1. GoodFile(dbFile)
      BY DEF Typed
    <1>2. GoodIn(g, h, hb, hs, old, mid, d, s, ea)
      BY BookParts DEF Typed, Good, GoodIn
    <1> HIDE DEF hb, hs
    <1>3. /\ GoodIn(w, h \cup {p}, hb, hs, old, mid, d, s, ea)
          /\ HeldBy(w) = With(HeldBy(g), p, c)
          /\ Same(g, w)
          /\ w.dbSize = IF p > g.dbSize THEN p ELSE g.dbSize
          /\ \A q \in PageNumbers \ {p} : View(dbFile, w)[q] = View(dbFile, g)[q]
      <2>1. Writing(g, p, c, Written(g, p, c), h, hb, hs, old, mid, d, s, ea)
        BY <1>1, <1>2, WrittenGood
      <2> QED BY <2>1 DEF Writing
    <1> HIDE DEF w
    <1>5. Good(w, h \cup {p}, old, mid, d, s, ea)
      BY <1>3 DEF Good, GoodIn, hb, hs
    <1>6. OneWrite(g, w, p, c)
      BY <1>3 DEF OneWrite
    <1> QED BY <1>3, <1>5, <1>6 DEF w

\* ... when the page is kept already.
LEMMA KeptStep ==
    ASSUME Typed, NEW g, NEW h, NEW old, NEW mid, NEW d, NEW s, NEW ea, Good(g, h, old, mid, d, s, ea),
           NEW p \in h, NEW c \in AllContents
    PROVE  /\ Good(Written(g, p, c), h, old, mid, d, s, ea)
           /\ OneWrite(g, Written(g, p, c), p, c)
           /\ Written(g, p, c).dbSize = g.dbSize
    <1>1. /\ h \in SUBSET PageNumbers /\ GoodPager(g)
          /\ NowKept(dbFile, g, View(dbFile, g), h)
      BY DEF Good, PagerGood
    <1>2. p \in PageNumbers /\ p \in Nat /\ p <= g.dbSize /\ g.dbSize \in Nat
      BY <1>1, PageNumber, PagerFields DEF NowKept
    <1>3. p <= g.dbSize + 1 /\ ~(p > g.dbSize)
      BY <1>2
    <1>4. h \cup {p} = h
      OBVIOUS
    <1>5. /\ Good(Written(g, p, c), h \cup {p}, old, mid, d, s, ea)
          /\ OneWrite(g, Written(g, p, c), p, c)
          /\ Written(g, p, c).dbSize = IF p > g.dbSize THEN p ELSE g.dbSize
      BY <1>2, <1>3, WriteStep
    <1> QED BY <1>3, <1>4, <1>5

LEMMA SameTwice ==
    ASSUME NEW g, NEW g2, NEW g3, Same(g, g2), Same(g2, g3)
    PROVE  Same(g, g3)
    BY DEF Same

\* What a call may write to page 1 and to a trunk.
LEMMA FreeSet ==
    ASSUME NEW x \in AllContents, NEW m \in Nat
    PROVE  /\ [x EXCEPT !.free = m] \in AllContents
           /\ [x EXCEPT !.free = m].next = x.next /\ [x EXCEPT !.free = m].free = m
    BY DEF AllContents

HeadWith(x, m, n) == [[x EXCEPT !.free = m] EXCEPT !.next = n]
LEMMA HeadSet ==
    ASSUME NEW x \in AllContents, NEW m \in Nat, NEW n \in 0..MostPages
    PROVE  /\ HeadWith(x, m, n) \in AllContents
           /\ HeadWith(x, m, n).next = n /\ HeadWith(x, m, n).free = m
    BY DEF AllContents, HeadWith

LEMMA LeavesSet ==
    ASSUME NEW x \in AllContents, NEW s \in Seq(PageNumbers)
    PROVE  /\ [x EXCEPT !.leaves = s] \in AllContents
           /\ [x EXCEPT !.leaves = s].next = x.next /\ [x EXCEPT !.leaves = s].leaves = s
    BY DEF AllContents

LEMMA NewTrunk ==
    ASSUME NEW n \in 0..MostPages
    PROVE  /\ Contents(Nothing, n, 0, <<>>) \in AllContents
           /\ Contents(Nothing, n, 0, <<>>).next = n
           /\ Contents(Nothing, n, 0, <<>>).leaves = <<>>
    <1>1. <<>> \in Seq(PageNumbers)
      OBVIOUS
    <1> QED BY <1>1 DEF AllContents, Contents

\* A page is freed.
LEMMA FreeKeeps ==
    ASSUME Kept, Free
    PROVE  Kept'
    <1> DEFINE h == Holding(Book)
               c == HeldBy(pager)
               k == c[1].next
    <1>1. Call
      BY DEF Free
    <1>2. PICK old, mid : Remembered(old, mid) /\ Good(pager, h, old, mid, dropped, inStmt, early)
      BY <1>1, InCall DEF Good
    <1>3. PICK p \in DOMAIN used :
             /\ pager' = PutOnList(pager, p)
             /\ used' = [q \in DOMAIN used \ {p} |-> used[q]]
             /\ trunks' = IF TakesLeaf(pager) THEN trunks ELSE Append(trunks, p)
             /\ LET d == IF Loses(pager, p) THEN {p} ELSE {}
                IN  /\ dropped' = dropped \cup d
                    /\ inStmt' = IF pager.stmt.inUse THEN inStmt \cup d ELSE inStmt
      BY DEF Free
    <1>4. /\ dbFile' = dbFile /\ atBegin' = atBegin /\ atStmt' = atStmt /\ twice' = twice
          /\ twice = {} /\ early' = early /\ calls' \in 0..MaxCalls
      BY <1>1, InCall DEF Free
    <1>5. /\ Typed /\ GoodFile(dbFile) /\ GoodPager(pager) /\ Book \in Books
          /\ inStmt \subseteq dropped /\ dropped \subseteq PageNumbers
      BY <1>1, InCall DEF Typed
    <1>6. Book.used = used /\ Book.trunks = trunks
      BY DEF Book
    <1>7. /\ used \in [DOMAIN used -> Data] /\ DOMAIN used \subseteq PageNumbers \ {1}
          /\ trunks \in Seq(PageNumbers \ {1})
      BY <1>5, <1>6, BookParts
    <1>8. ListOf(Book, c, pager.dbSize) /\ p \in DOMAIN Book.used
      BY <1>1, <1>5, <1>6, InCall DEF ListOf
    <1>9. p \in h /\ 1 \in h /\ p \in PageNumbers /\ p # 1 /\ p <= pager.dbSize
          /\ 1 \in PageNumbers /\ p \in 0..MostPages
      <2>1. p \in h
        BY <1>6 DEF Holding
      <2> QED BY <2>1, <1>1, <1>7, InCall, PageNumber
    <1>10. \A q \in PageNumbers : Content(pager, q) = c[q]
      BY <1>1, InCall
    <1>11. c \in [PageNumbers -> AllContents] /\ pager.dbSize \in PageNumbers
      BY <1>8 DEF ListOf
    <1>12. /\ c[1] \in AllContents /\ c[1].free \in Nat /\ c[1].next \in 0..MostPages
           /\ c[1].free + 1 \in Nat
           /\ c[1].free = 0 => c[1].next = 0
           /\ c[1].free # 0 => /\ k \in PageNumbers \ {1} /\ c[k] \in AllContents
                               /\ c[k].leaves \in Seq(PageNumbers) /\ Len(c[k].leaves) \in Nat
                               /\ k \in Items(trunks)
      <2>1. c[1] \in AllContents
        BY <1>9, <1>11
      <2> QED BY <2>1, <1>6, <1>8, FirstTrunk DEF ListOf
    <1>13. TakesLeaf(pager) <=> c[1].free # 0 /\ Len(c[k].leaves) < TrunkCapacity
      <2>1. Head1(pager) = c[1] /\ (c[1].free > 0 <=> c[1].free # 0)
        BY <1>9, <1>10, <1>12 DEF Head1
      <2>2. c[1].free # 0 => Leaves(pager, k) = c[k].leaves
        BY <1>10, <1>12 DEF Leaves
      <2> QED BY <2>1, <2>2 DEF TakesLeaf
    <1> DEFINE b2 == [used |-> used', trunks |-> trunks']
    <1>14. /\ Book' = b2
           /\ trunks' \in Seq(PageNumbers \ {1}) => NotUsed(Book, b2, p, trunks')
      <2>1. used' \in [DOMAIN used' -> Data] /\ DOMAIN used' \subseteq PageNumbers \ {1}
        BY <1>3, <1>7
      <2> QED BY <2>1, <1>3, <1>6, ABook DEF Book, NotUsed
    <1> HIDE DEF b2, c, k, h
    <1>15. ASSUME ~TakesLeaf(pager)
           PROVE  Calls(old, mid)
      <2> DEFINE x == [[c[1] EXCEPT !.free = c[1].free + 1] EXCEPT !.next = p]
                 y == Contents(Nothing, k, 0, <<>>)
                 g == Written(pager, 1, x)
      <2>1. /\ x \in AllContents /\ x.next = p /\ x.free = c[1].free + 1
            /\ y \in AllContents /\ y.next = k /\ y.leaves = <<>>
        <3> DEFINE z == c[1]
                   m == z.free + 1
        <3>0. z \in AllContents /\ m \in Nat /\ p \in 0..MostPages
          BY <1>9, <1>12
        <3>1. x \in AllContents /\ x.next = p /\ x.free = c[1].free + 1
          <4>1. x = HeadWith(z, m, p)
            BY DEF HeadWith
          <4> HIDE DEF x, z, m
          <4>2. x \in AllContents /\ x.next = p /\ x.free = m
            BY <3>0, <4>1, HeadSet
          <4> QED BY <4>2 DEF z, m
        <3>2. y \in AllContents /\ y.next = k /\ y.leaves = <<>>
          BY <1>12, NewTrunk DEF k
        <3> QED BY <3>1, <3>2
      <2>2. pager' = Written(g, p, y)
        <3>1. Head1(pager) = c[1]
          BY <1>9, <1>10 DEF Head1
        <3>2. CASE c[1].free = 0
          <4>1. y = Zeros
            BY <3>2, <1>12 DEF Zeros, k
          <4> QED BY <4>1, <3>1, <3>2, <1>3 DEF PutOnList
        <3>3. CASE c[1].free # 0
          <4>1. Len(c[k].leaves) >= TrunkCapacity
            BY <3>3, <1>12, <1>13, <1>15, FreePagesAssumption
          <4>2. Content(pager, k) = c[k]
            BY <3>3, <1>10, <1>12
          <4> QED BY <4>1, <4>2, <3>1, <3>3, <1>3 DEF PutOnList, k
        <3> QED BY <3>2, <3>3
      <2> HIDE DEF x, y, g
      <2>3. /\ Good(g, h, old, mid, dropped, inStmt, early) /\ OneWrite(pager, g, 1, x)
            /\ g.dbSize = pager.dbSize
        BY <1>2, <1>5, <1>9, <2>1, KeptStep DEF g
      <2>4. /\ Good(pager', h, old, mid, dropped, inStmt, early) /\ OneWrite(g, pager', p, y)
            /\ pager'.dbSize = g.dbSize
        BY <1>5, <1>9, <2>1, <2>2, <2>3, KeptStep
      <2>5. HeldBy(pager') = With(With(c, 1, x), p, y) /\ Same(pager, pager')
        BY <2>3, <2>4, SameTwice DEF OneWrite, c
      <2>6. NotUsed(Book, b2, p, Append(Book.trunks, p))
        <3>1. trunks' = Append(trunks, p)
          BY <1>3, <1>15
        <3>2. Append(trunks, p) \in Seq(PageNumbers \ {1})
          BY <1>7, <1>9, AppendProperties
        <3> QED BY <3>1, <3>2, <1>6, <1>14
      <2>7. FreedTrunk(c, p, x, y)
        BY <2>1 DEF FreedTrunk, k
      <2>8. /\ IsList(HeldBy(pager'), b2, pager'.dbSize) /\ RowsKept(HeldBy(pager'), b2)
            /\ Holding(b2) = h
        <3>1. /\ IsList(With(With(c, 1, x), p, y), b2, pager.dbSize)
              /\ RowsKept(With(With(c, 1, x), p, y), b2)
              /\ Holding(b2) = Holding(Book)
          BY <2>6, <2>7, <1>8, <1>9, FreesTrunk
        <3> QED BY <3>1, <2>3, <2>4, <2>5 DEF h
      <2>9. dropped' = dropped /\ inStmt' = inStmt
        <3>1. ~Loses(pager, p)
          BY <1>15 DEF Loses
        <3> QED BY <3>1, <1>3
      <2>10. b2 \in Books
        BY <2>6 DEF NotUsed
      <2> QED BY <2>4, <2>5, <2>8, <2>9, <2>10, <1>2, <1>4, <1>5, <1>14 DEF Calls, Good
    <1>16. ASSUME TakesLeaf(pager)
           PROVE  Calls(old, mid)
      <2> DEFINE x == [c[1] EXCEPT !.free = c[1].free + 1]
                 y == [c[k] EXCEPT !.leaves = Append(c[k].leaves, p)]
                 g == Written(pager, 1, x)
                 g2 == Written(g, k, y)
                 d == IF Drops(g2, p) THEN {p} ELSE {}
      <2>0. /\ c[1].free # 0 /\ Len(c[k].leaves) < TrunkCapacity /\ k \in PageNumbers \ {1}
            /\ c[k] \in AllContents /\ c[k].leaves \in Seq(PageNumbers)
        BY <1>12, <1>13, <1>16
      <2>1. /\ x \in AllContents /\ x.next = k /\ x.free = c[1].free + 1
            /\ y \in AllContents /\ y.next = c[k].next /\ y.leaves = Append(c[k].leaves, p)
        <3>1. Append(c[k].leaves, p) \in Seq(PageNumbers)
          BY <2>0, <1>9, AppendProperties
        <3>2. x \in AllContents /\ x.next = c[1].next /\ x.free = c[1].free + 1
          BY <1>12, FreeSet
        <3>3. y \in AllContents /\ y.next = c[k].next /\ y.leaves = Append(c[k].leaves, p)
          BY <3>1, <2>0, LeavesSet
        <3> QED BY <3>2, <3>3 DEF k
      <2>2. pager' = DontWrite(g2, p)
        <3>1. Head1(pager) = c[1] /\ Content(pager, k) = c[k]
          BY <1>9, <1>10, <2>0 DEF Head1
        <3>2. ~(Len(c[k].leaves) >= TrunkCapacity)
          BY <2>0, <1>12, FreePagesAssumption
        <3> QED BY <3>1, <3>2, <2>0, <1>3 DEF PutOnList, k
      <2> HIDE DEF x, y, g, g2
      <2>3. FreedLeaf(c, k, p, x, y)
        BY <2>0, <2>1 DEF FreedLeaf, k
      <2>4. NotUsed(Book, b2, p, Book.trunks)
        BY <1>3, <1>6, <1>7, <1>14, <1>16
      <2>5. /\ IsList(With(With(c, 1, x), k, y), b2, pager.dbSize)
            /\ RowsKept(With(With(c, 1, x), k, y), b2)
            /\ Holding(b2) = h \ {p} /\ k \in h /\ k # p
        BY <2>3, <2>4, <1>8, <1>9, FreesLeaf DEF h
      <2>6. /\ Good(g, h, old, mid, dropped, inStmt, early) /\ OneWrite(pager, g, 1, x)
            /\ g.dbSize = pager.dbSize
        BY <1>2, <1>5, <1>9, <2>1, KeptStep DEF g
      <2>7. /\ Good(g2, h, old, mid, dropped, inStmt, early) /\ OneWrite(g, g2, k, y)
            /\ g2.dbSize = g.dbSize
        BY <1>5, <2>1, <2>5, <2>6, KeptStep DEF g2
      <2>8. HeldBy(g2) = With(With(c, 1, x), k, y) /\ Same(pager, g2)
        BY <2>6, <2>7, SameTwice DEF OneWrite, c
      <2>9. Drops(g2, p) <=> Drops(pager, p)
        <3>1. GoodPager(g2)
          BY <2>7 DEF Good, PagerGood
        <3>2. /\ Fetched(g2, p).cache[p] = View(dbFile, g2)[p]
              /\ Fetched(pager, p).cache[p] = View(dbFile, pager)[p]
          BY <3>1, <1>5, <1>9, ContentIs
        <3>3. View(dbFile, g2)[p] = View(dbFile, pager)[p]
          BY <2>5, <2>6, <2>7, <1>9 DEF OneWrite
        <3> QED BY <3>2, <3>3, <2>6, <2>7, <2>8 DEF Drops, Same
      <2>10. Loses(pager, p) <=> Drops(g2, p)
        BY <2>9, <1>16 DEF Loses
      <2> HIDE DEF d
      <2>11. /\ dropped' = dropped \cup d
             /\ inStmt' = IF g2.stmt.inUse THEN inStmt \cup d ELSE inStmt
        BY <2>8, <2>10, <1>3 DEF d, Same
      <2>12. /\ Good(pager', h \ {p}, old, mid, dropped', inStmt', early)
             /\ HeldBy(pager') = HeldBy(g2) /\ Same(g2, pager') /\ pager'.dbSize = g2.dbSize
        <3> DEFINE hb == Holding(atBegin)
                   hs == Holding(atStmt)
        <3>1. GoodIn(g2, h, hb, hs, old, mid, dropped, inStmt, early)
          BY <2>7, <1>5, BookParts DEF Typed, Good, GoodIn
        <3> HIDE DEF hb, hs
        <3>2. d = IF Drops(g2, p) THEN {p} ELSE {}
          BY DEF d
        <3>3. /\ GoodIn(pager', h \ {p}, hb, hs, old, mid, dropped',
                        IF g2.stmt.inUse THEN inStmt \cup d ELSE inStmt, early)
              /\ HeldBy(pager') = HeldBy(g2) /\ Same(g2, pager') /\ pager'.dbSize = g2.dbSize
          BY <3>1, <3>2, <2>2, <2>11, <1>5, <1>9, DontWriteGood
        <3> QED BY <3>3, <2>11 DEF Good, GoodIn, hb, hs
      <2>13. /\ Same(pager, pager') /\ pager'.dbSize = pager.dbSize
             /\ HeldBy(pager') = With(With(c, 1, x), k, y)
        BY <2>6, <2>7, <2>8, <2>12, SameTwice
      <2>14. inStmt \subseteq inStmt' /\ inStmt' \subseteq dropped' /\ dropped' \subseteq PageNumbers
        <3>1. d \subseteq PageNumbers
          BY <1>9 DEF d
        <3> QED BY <3>1, <2>11, <1>5
      <2>15. b2 \in Books
        BY <2>4 DEF NotUsed
      <2> QED BY <2>5, <2>12, <2>13, <2>14, <2>15, <1>2, <1>4, <1>14 DEF Calls, Good
    <1> QED BY <1>1, <1>15, <1>16, InCall, CallKeeps

\* A page is allocated.  What the three ways to do it have to show:
Uses(b2, old, mid) ==
    /\ Good(pager', Holding(b2), old, mid, dropped, inStmt, early)
    /\ Same(pager, pager')
    /\ IsList(HeldBy(pager'), b2, pager'.dbSize) /\ RowsKept(HeldBy(pager'), b2)

\* ... a new page at the end of the file,
LEMMA AllocateNew ==
    ASSUME Typed, NEW old, NEW mid, Good(pager, Holding(Book), old, mid, dropped, inStmt, early),
           ListOf(Book, HeldBy(pager), pager.dbSize), HeldBy(pager)[1].free = 0,
           \A q \in DOMAIN Book.used : q <= pager.dbSize,
           NEW v \in Data, NEW p \in PageNumbers, p = pager.dbSize + 1,
           NEW b2, NowUsed(Book, b2, p, v, Book.trunks), pager' = Written(pager, p, Row(v))
    PROVE  Uses(b2, old, mid) /\ p \notin DOMAIN Book.used
    <1> DEFINE h == Holding(Book)
               c == HeldBy(pager)
               b == Book
               g == pager'
    <1>1. /\ IsList(With(c, p, Row(v)), b2, p) /\ RowsKept(With(c, p, Row(v)), b2)
          /\ Holding(b2) = h \cup {p} /\ p \notin DOMAIN b.used
      <2> HIDE DEF b, c
      <2> QED BY UsesNew DEF b, c
    <1>2. Row(v) \in AllContents
      BY ContentsType
    <1>3. pager.dbSize \in Nat /\ p <= pager.dbSize + 1 /\ p > pager.dbSize
      <2> DEFINE n == pager.dbSize
      <2>1. n \in PageNumbers /\ p = n + 1
        BY DEF ListOf
      <2> HIDE DEF n
      <2>2. n \in Nat
        BY <2>1, PageNumber
      <2>3. p <= n + 1 /\ p > n
        BY <2>1, <2>2
      <2> QED BY <2>2, <2>3 DEF n
    <1> HIDE DEF h, c, b, g
    <1>4. /\ Good(g, h \cup {p}, old, mid, dropped, inStmt, early) /\ OneWrite(pager, g, p, Row(v))
          /\ g.dbSize = IF p > pager.dbSize THEN p ELSE pager.dbSize
      BY <1>2, <1>3, WriteStep DEF h, g
    <1> QED BY <1>1, <1>3, <1>4 DEF Uses, OneWrite, c, g, b

\* ... the first trunk,
LEMMA AllocateTrunk ==
    ASSUME Typed, NEW old, NEW mid, Good(pager, Holding(Book), old, mid, dropped, inStmt, early),
           ListOf(Book, HeldBy(pager), pager.dbSize), 1 \in Holding(Book),
           NEW x \in AllContents, NEW z \in AllContents, NEW v \in Data,
           NEW p, TakenTrunk(HeldBy(pager), p, x),
           NEW b2, NowUsed(Book, b2, p, v, SubSeq(Book.trunks, 1, Len(Book.trunks) - 1)),
           pager' = Written(Written(Written(pager, 1, x), p, z), p, Row(v))
    PROVE  Uses(b2, old, mid) /\ p \notin DOMAIN Book.used
    <1> DEFINE h == Holding(Book)
               c == HeldBy(pager)
               b == Book
               g1 == Written(pager, 1, x)
               g2 == Written(g1, p, z)
               g3 == Written(g2, p, Row(v))
    <1>1. /\ IsList(With(With(With(c, 1, x), p, z), p, Row(v)), b2, pager.dbSize)
          /\ RowsKept(With(With(With(c, 1, x), p, z), p, Row(v)), b2)
          /\ Holding(b2) = h /\ p \in h /\ p \notin DOMAIN b.used
      <2> HIDE DEF b, c
      <2> QED BY UsesTrunk DEF b, c
    <1>2. Row(v) \in AllContents
      BY ContentsType
    <1>3. pager' = g3
      OBVIOUS
    <1>4. /\ Good(g1, h, old, mid, dropped, inStmt, early) /\ OneWrite(pager, g1, 1, x)
          /\ g1.dbSize = pager.dbSize
      BY KeptStep
    <1> HIDE DEF h, c, b, g1
    <1>5. /\ Good(g2, h, old, mid, dropped, inStmt, early) /\ OneWrite(g1, g2, p, z)
          /\ g2.dbSize = g1.dbSize
      BY <1>1, <1>4, KeptStep
    <1> HIDE DEF g2
    <1>6. /\ Good(g3, h, old, mid, dropped, inStmt, early) /\ OneWrite(g2, g3, p, Row(v))
          /\ g3.dbSize = g2.dbSize
      BY <1>1, <1>2, <1>5, KeptStep
    <1> HIDE DEF g3
    <1>7. Same(pager, g3)
      BY <1>4, <1>5, <1>6, SameTwice DEF OneWrite
    <1>8. HeldBy(g3) = With(With(With(c, 1, x), p, z), p, Row(v)) /\ g3.dbSize = pager.dbSize
      BY <1>4, <1>5, <1>6 DEF OneWrite, c
    <1> QED BY <1>1, <1>3, <1>6, <1>7, <1>8 DEF Uses, b

\* ... or a leaf of it.
LEMMA AllocateLeaf ==
    ASSUME Typed, NEW old, NEW mid, Good(pager, Holding(Book), old, mid, dropped, inStmt, early),
           ListOf(Book, HeldBy(pager), pager.dbSize), 1 \in Holding(Book),
           NEW x \in AllContents, NEW y \in AllContents, NEW v \in Data,
           NEW k, NEW p, TakenLeaf(HeldBy(pager), k, p, x, y),
           NEW b2, NowUsed(Book, b2, p, v, Book.trunks),
           pager' = Written(DontRollback(Written(Written(pager, 1, x), k, y), p), p, Row(v))
    PROVE  Uses(b2, old, mid) /\ p \notin DOMAIN Book.used
    <1> DEFINE h == Holding(Book)
               c == HeldBy(pager)
               b == Book
               g1 == Written(pager, 1, x)
               g2 == Written(g1, k, y)
               g3 == DontRollback(g2, p)
               g4 == Written(g3, p, Row(v))
    <1>1. /\ IsList(With(With(With(c, 1, x), k, y), p, Row(v)), b2, pager.dbSize)
          /\ RowsKept(With(With(With(c, 1, x), k, y), p, Row(v)), b2)
          /\ Holding(b2) = h \cup {p} /\ p \notin h /\ p \in 2..pager.dbSize
          /\ p \notin DOMAIN b.used /\ k \in h
      <2> HIDE DEF b, c
      <2> QED BY UsesLeaf DEF b, c
    <1>2. Row(v) \in AllContents
      BY ContentsType
    <1>3. pager' = g4
      OBVIOUS
    <1>4. /\ Good(g1, h, old, mid, dropped, inStmt, early) /\ OneWrite(pager, g1, 1, x)
          /\ g1.dbSize = pager.dbSize
      BY KeptStep
    <1> HIDE DEF h, c, b, g1
    <1>5. /\ Good(g2, h, old, mid, dropped, inStmt, early) /\ OneWrite(g1, g2, k, y)
          /\ g2.dbSize = g1.dbSize
      BY <1>1, <1>4, KeptStep
    <1>6. /\ p \in PageNumbers /\ p <= pager.dbSize /\ ~(p > pager.dbSize)
          /\ p <= pager.dbSize + 1
      <2>1. pager.dbSize \in Nat /\ pager.dbSize <= MostPages /\ MostPages \in Nat
        BY PageNumber DEF ListOf
      <2> QED BY <1>1, <2>1 DEF PageNumbers
    <1> HIDE DEF g2
    <1>7. /\ Good(g3, h, old, mid, dropped, inStmt, early) /\ HeldBy(g3) = HeldBy(g2)
          /\ Same(g2, g3) /\ g3.dbSize = g2.dbSize
      <2> DEFINE hb == Holding(atBegin)
                 hs == Holding(atStmt)
      <2>1. GoodIn(g2, h, hb, hs, old, mid, dropped, inStmt, early) /\ GoodFile(dbFile)
        BY <1>5, BookParts DEF Typed, Good, GoodIn
      <2> HIDE DEF hb, hs
      <2>2. /\ GoodIn(g3, h, hb, hs, old, mid, dropped, inStmt, early)
            /\ HeldBy(g3) = HeldBy(g2) /\ Same(g2, g3) /\ g3.dbSize = g2.dbSize
        BY <2>1, <1>1, <1>6, DontRollbackGood
      <2> QED BY <2>2 DEF Good, GoodIn, hb, hs
    <1> HIDE DEF g3
    <1>8. g3.dbSize = pager.dbSize
      BY <1>4, <1>5, <1>7
    <1>9. /\ Good(g4, h \cup {p}, old, mid, dropped, inStmt, early) /\ OneWrite(g3, g4, p, Row(v))
          /\ g4.dbSize = IF p > g3.dbSize THEN p ELSE g3.dbSize
      BY <1>2, <1>6, <1>7, <1>8, WriteStep
    <1> HIDE DEF g4
    <1>10. Same(pager, g4)
      BY <1>4, <1>5, <1>7, <1>9, SameTwice DEF OneWrite
    <1>11. HeldBy(g4) = With(With(With(c, 1, x), k, y), p, Row(v)) /\ g4.dbSize = pager.dbSize
      BY <1>4, <1>5, <1>6, <1>7, <1>8, <1>9 DEF OneWrite, c
    <1> QED BY <1>1, <1>3, <1>9, <1>10, <1>11 DEF Uses, b

LEMMA AllocateKeeps ==
    ASSUME Kept, Allocate
    PROVE  Kept'
    <1> DEFINE h == Holding(Book)
               c == HeldBy(pager)
               k == c[1].next
    <1>1. Call
      BY DEF Allocate
    <1>2. PICK old, mid : Remembered(old, mid) /\ Good(pager, h, old, mid, dropped, inStmt, early)
      BY <1>1, InCall DEF Good
    <1>3. PICK p \in Candidates(pager) \cap PageNumbers, v \in Data :
             /\ pager' = Written(Allocated(pager, p), p, Row(v))
             /\ used' = [q \in DOMAIN used \cup {p} |-> IF q = p THEN v ELSE used[q]]
             /\ trunks' = IF PopsTrunk(pager) THEN SubSeq(trunks, 1, Len(trunks) - 1) ELSE trunks
             /\ twice' = twice \cup ({p} \cap DOMAIN used)
      BY DEF Allocate
    <1>4. /\ dbFile' = dbFile /\ atBegin' = atBegin /\ atStmt' = atStmt
          /\ dropped' = dropped /\ inStmt' = inStmt /\ early' = early
          /\ twice = {} /\ calls' \in 0..MaxCalls
      BY <1>1, InCall DEF Allocate
    <1>5. /\ Typed /\ GoodFile(dbFile) /\ GoodPager(pager) /\ Book \in Books
          /\ inStmt \subseteq dropped /\ dropped \subseteq PageNumbers
      BY <1>1, InCall DEF Typed
    <1>6. Book.used = used /\ Book.trunks = trunks
      BY DEF Book
    <1>7. /\ used \in [DOMAIN used -> Data] /\ DOMAIN used \subseteq PageNumbers \ {1}
          /\ trunks \in Seq(PageNumbers \ {1})
      BY <1>5, <1>6, BookParts
    <1>8. ListOf(Book, c, pager.dbSize)
      BY <1>1, <1>5, InCall DEF ListOf
    <1>9. 1 \in h /\ 1 \in PageNumbers /\ \A q \in DOMAIN Book.used : q <= pager.dbSize
      <2>1. \A q \in DOMAIN Book.used : q \in h
        BY DEF Holding
      <2> QED BY <2>1, <1>1, InCall, PageNumber
    <1>10. \A q \in PageNumbers : Content(pager, q) = c[q]
      BY <1>1, InCall
    <1>11. c \in [PageNumbers -> AllContents] /\ pager.dbSize \in PageNumbers
      BY <1>8 DEF ListOf
    <1>12. /\ c[1] \in AllContents /\ c[1].free \in Nat
           /\ c[1].free # 0 => /\ k \in PageNumbers \ {1} /\ c[k] \in AllContents
                               /\ c[k].leaves \in Seq(PageNumbers)
                               /\ c[k].next \in 0..MostPages
                               /\ Distinct(c[k].leaves)
                               /\ c[1].free - 1 \in Nat
                               /\ trunks # <<>> /\ c[1].next = k
      <2>1. c[1] \in AllContents
        BY <1>9, <1>11
      <2>2. /\ c[1].free \in Nat
            /\ c[1].free # 0 => /\ k \in PageNumbers \ {1} /\ c[k] \in AllContents
                                /\ c[k].leaves \in Seq(PageNumbers)
                                /\ Distinct(c[k].leaves) /\ trunks # <<>>
        BY <1>6, <1>8, FirstTrunk DEF ListOf
      <2>3. c[k] \in AllContents => c[k].next \in 0..MostPages
        BY DEF AllContents
      <2>4. c[1].free # 0 => c[1].free - 1 \in Nat
        BY <2>2
      <2> QED BY <2>1, <2>2, <2>3, <2>4
    <1>13. /\ Head1(pager) = c[1]
           /\ c[1].free # 0 => Leaves(pager, k) = c[k].leaves /\ Content(pager, k) = c[k]
           /\ (c[1].free > 0 <=> c[1].free # 0)
      BY <1>9, <1>10, <1>12 DEF Head1, Leaves
    <1>14. PopsTrunk(pager) <=> c[1].free # 0 /\ c[k].leaves = <<>>
      BY <1>13 DEF PopsTrunk
    <1> DEFINE b2 == [used |-> used', trunks |-> trunks']
    <1>15. /\ Book' = b2
           /\ trunks' \in Seq(PageNumbers \ {1}) /\ p # 1 => NowUsed(Book, b2, p, v, trunks')
      <2>1. used' \in [DOMAIN used' -> Data]
        BY <1>3, <1>7
      <2>2. p # 1 => DOMAIN used' \subseteq PageNumbers \ {1}
        BY <1>3, <1>7
      <2> QED BY <2>1, <2>2, <1>3, <1>6, ABook DEF Book, NowUsed
    <1> HIDE DEF b2, c, k, h
    <1>16. ASSUME c[1].free = 0
           PROVE  Uses(b2, old, mid) /\ p \notin DOMAIN Book.used /\ b2 \in Books
      <2>1. p = pager.dbSize + 1
        BY <1>3, <1>13, <1>16 DEF Candidates
      <2>2. Allocated(pager, p) = pager
        BY <1>13, <1>16 DEF Allocated
      <2>3. trunks' = trunks
        BY <1>3, <1>14, <1>16
      <2>4. p # 1
        <3> DEFINE n == pager.dbSize
        <3>1. n \in PageNumbers
          BY <1>11
        <3> HIDE DEF n
        <3>2. n \in Nat /\ n >= 1
          BY <3>1, PageNumber
        <3>3. n + 1 # 1
          BY <3>2
        <3> QED BY <3>3, <2>1 DEF n
      <2>5. NowUsed(Book, b2, p, v, Book.trunks)
        BY <2>3, <2>4, <1>6, <1>7, <1>15
      <2>6. pager' = Written(pager, p, Row(v))
        BY <2>2, <1>3
      <2>7. p \in PageNumbers /\ v \in Data
        OBVIOUS
      <2>8. Uses(b2, old, mid) /\ p \notin DOMAIN Book.used
        BY <2>1, <2>5, <2>6, <2>7, <1>2, <1>5, <1>8, <1>9, <1>16, AllocateNew DEF h, c
      <2> QED BY <2>5, <2>8 DEF NowUsed
    <1>17. ASSUME c[1].free # 0, c[k].leaves = <<>>
           PROVE  Uses(b2, old, mid) /\ p \notin DOMAIN Book.used /\ b2 \in Books
      <2> DEFINE x == [[c[1] EXCEPT !.free = c[1].free - 1] EXCEPT !.next = c[k].next]
                 z == c[k]
      <2>1. p = k
        BY <1>3, <1>12, <1>13, <1>17 DEF Candidates
      <2>2. x \in AllContents /\ x.next = c[k].next /\ x.free = c[1].free - 1
        <3> DEFINE c1 == c[1]
                   n == c[k].next
                   m == c1.free - 1
        <3>1. c1 \in AllContents /\ m \in Nat /\ n \in 0..MostPages
          BY <1>12, <1>17
        <3>2. x = HeadWith(c1, m, n)
          BY DEF HeadWith
        <3> HIDE DEF x, c1, m, n
        <3>3. x \in AllContents /\ x.next = n /\ x.free = m
          BY <3>1, <3>2, HeadSet
        <3> QED BY <3>3 DEF c1, m, n
      <2>3. Allocated(pager, p) = Written(Written(pager, 1, x), p, z)
        BY <2>1, <1>12, <1>13, <1>17 DEF Allocated
      <2> HIDE DEF x, z
      <2>4. TakenTrunk(c, p, x)
        BY <2>1, <2>2, <1>12, <1>17 DEF TakenTrunk
      <2>5. NowUsed(Book, b2, p, v, SubSeq(Book.trunks, 1, Len(Book.trunks) - 1))
        <3>1. trunks' = SubSeq(trunks, 1, Len(trunks) - 1)
          BY <1>3, <1>14, <1>17
        <3>2. SubSeq(trunks, 1, Len(trunks) - 1) \in Seq(PageNumbers \ {1})
          BY <1>7, <1>12, <1>17, ItemsFront
        <3> QED BY <3>1, <3>2, <2>1, <1>6, <1>12, <1>15, <1>17
      <2>6. pager' = Written(Written(Written(pager, 1, x), p, z), p, Row(v))
        BY <2>3, <1>3
      <2>7. z \in AllContents
        BY <1>12, <1>17 DEF z
      <2>8. Uses(b2, old, mid) /\ p \notin DOMAIN Book.used
        <3>1. 1 \in Holding(Book) /\ TakenTrunk(HeldBy(pager), p, x)
              /\ ListOf(Book, HeldBy(pager), pager.dbSize)
              /\ Good(pager, Holding(Book), old, mid, dropped, inStmt, early)
          BY <2>4, <1>2, <1>8, <1>9 DEF h, c
        <3>2. x \in AllContents
          BY <2>2
        <3> QED BY <3>1, <3>2, <2>5, <2>6, <2>7, <1>5, AllocateTrunk
      <2> QED BY <2>5, <2>8 DEF NowUsed
    <1>18. ASSUME c[1].free # 0, c[k].leaves # <<>>
           PROVE  Uses(b2, old, mid) /\ p \notin DOMAIN Book.used /\ b2 \in Books
      <2> DEFINE x == [c[1] EXCEPT !.free = c[1].free - 1]
                 y == [c[k] EXCEPT !.leaves = Without(c[k].leaves, p)]
      <2>1. p \in Items(c[k].leaves)
        BY <1>3, <1>12, <1>13, <1>18 DEF Candidates, Items
      <2>2. x \in AllContents /\ x.next = k /\ x.free = c[1].free - 1
        BY <1>12, <1>18, FreeSet
      <2>a. y \in AllContents /\ y.next = c[k].next /\ y.leaves = Without(c[k].leaves, p)
        <3>1. Without(c[k].leaves, p) \in Seq(PageNumbers)
          BY <2>1, <1>12, <1>18, WithoutItems
        <3> QED BY <3>1, <1>12, <1>18, LeavesSet
      <2>3. Allocated(pager, p) = DontRollback(Written(Written(pager, 1, x), k, y), p)
        BY <1>12, <1>13, <1>18 DEF Allocated
      <2> HIDE DEF x, y
      <2>4. TakenLeaf(c, k, p, x, y)
        BY <2>1, <2>2, <2>a, <1>12, <1>18 DEF TakenLeaf
      <2>b. p # 1
        <3>1. p \in FreeIn(c, Book.trunks)
          BY <2>1, <1>8, <1>12, <1>18, FirstTrunk DEF ListOf
        <3> QED BY <3>1, <1>8, ListParts DEF ListOf
      <2>5. NowUsed(Book, b2, p, v, Book.trunks)
        BY <2>b, <1>3, <1>6, <1>7, <1>14, <1>15, <1>18
      <2>6. pager' = Written(DontRollback(Written(Written(pager, 1, x), k, y), p), p, Row(v))
        BY <2>3, <1>3
      <2>8. Uses(b2, old, mid) /\ p \notin DOMAIN Book.used
        <3>1. 1 \in Holding(Book) /\ TakenLeaf(HeldBy(pager), k, p, x, y)
              /\ ListOf(Book, HeldBy(pager), pager.dbSize)
              /\ Good(pager, Holding(Book), old, mid, dropped, inStmt, early)
          BY <2>4, <1>2, <1>8, <1>9 DEF h, c
        <3>2. x \in AllContents /\ y \in AllContents
          BY <2>2, <2>a
        <3> QED BY <3>1, <3>2, <2>5, <2>6, <1>5, AllocateLeaf
      <2> QED BY <2>5, <2>8 DEF NowUsed
    <1>19. Uses(b2, old, mid) /\ p \notin DOMAIN Book.used /\ b2 \in Books
      BY <1>16, <1>17, <1>18
    <1>20. twice' = {}
      BY <1>3, <1>4, <1>6, <1>19
    <1>21. Calls(old, mid)
      BY <1>2, <1>4, <1>5, <1>15, <1>19, <1>20 DEF Calls, Uses, Good
    <1> QED BY <1>1, <1>21, InCall, CallKeeps

-----------------------------------------------------------------------------
\* The cache makes room: page p goes to the file if it is dirty.
LEMMA MakeFile ==
    ASSUME NEW n \in PageNumbers, NEW f, f \in [1..n -> AllContents]
    PROVE  GoodFile(f) /\ Len(f) = n
    <1>1. n \in Nat
      BY PageNumber
    <1>2. f \in Seq(AllContents)
      BY <1>1, IsASeq
    <1>3. Len(f) = n
      BY <1>1, <1>2, LenProperties
    <1> QED BY <1>2, <1>3 DEF GoodFile

Evicts(f, g, p, f2, w) ==
    /\ f2 = IF g.cache[p].dirty
            THEN [q \in 1..(IF p > Len(f) THEN p ELSE Len(f)) |->
                     IF q = p THEN g.cache[p].content ELSE At(f, q)]
            ELSE f
    /\ w = [g EXCEPT !.cache = [q \in DOMAIN g.cache \ {p} |-> g.cache[q]],
                     !.state = IF g.cache[p].dirty THEN "exclusive" ELSE g.state,
                     !.alwaysRollback = g.alwaysRollback \/ g.cache[p].alwaysRollback]
Evicted(f, g, e, p, f2, w, e2) ==
    /\ ~e2[p].dirty /\ (e2[p].inJournal <=> p \in g.inJournal)
    /\ e2[p].content = IF p > g.dbSize THEN Zeros ELSE At(f2, p)
    /\ \A q \in PageNumbers \ {p} : e2[q] = e[q] /\ At(f2, q) = At(f, q)
    /\ e[p].dirty => /\ At(f2, p) = e[p].content /\ w.state = "exclusive"
                     /\ Len(f2) = IF p > Len(f) THEN p ELSE Len(f)
    /\ ~e[p].dirty => f2 = f /\ w.state = g.state
    /\ w.dbSize = g.dbSize /\ w.origDbSize = g.origDbSize /\ w.journal = g.journal
    /\ w.inJournal = g.inJournal /\ w.stmt = g.stmt /\ w.counted = g.counted
    /\ w.alwaysRollback <=> g.alwaysRollback \/ e[p].alwaysRollback

\* Before that the journal is flushed (syncJournal): nothing waits any more, and the
\* rest is as it was.
Flushed(g, e, w, e2) ==
    /\ \A q \in PageNumbers : /\ e2[q].content = e[q].content /\ e2[q].dirty = e[q].dirty
                              /\ e2[q].inJournal = e[q].inJournal
                              /\ e2[q].alwaysRollback = e[q].alwaysRollback
                              /\ ~e2[q].needSync
    /\ w.state = g.state /\ w.dbSize = g.dbSize /\ w.origDbSize = g.origDbSize
    /\ w.journal = g.journal /\ w.inJournal = g.inJournal /\ w.stmt = g.stmt
    /\ w.alwaysRollback = g.alwaysRollback
    /\ w.counted = Len(g.journal)

LEMMA SyncEffect ==
    ASSUME NEW f, GoodFile(f), NEW g, GoodPager(g)
    PROVE  /\ GoodPager(Synced(g)) /\ DOMAIN Synced(g).cache = DOMAIN g.cache
           /\ Flushed(g, View(f, g), Synced(g), View(f, Synced(g)))
    <1> DEFINE ca == [q \in DOMAIN g.cache |-> [g.cache[q] EXCEPT !.needSync = FALSE]]
               n == Len(g.journal)
               w == Synced(g)
               e == View(f, g)
               e2 == View(f, w)
    <1>1. g.cache \in [DOMAIN g.cache -> Entries] /\ g \in PagersWith(g.cache)
          /\ DOMAIN g.cache \subseteq PageNumbers
      BY DEF GoodPager
    <1>2. n \in Nat
      BY PagerFields
    <1>3. \A q \in DOMAIN g.cache : [g.cache[q] EXCEPT !.needSync = FALSE] \in Entries
      <2> SUFFICES ASSUME NEW x \in Entries PROVE [x EXCEPT !.needSync = FALSE] \in Entries
        BY <1>1
      <2> QED BY DEF Entries
    <1>4. ca \in [DOMAIN g.cache -> Entries] /\ DOMAIN ca = DOMAIN g.cache
      BY <1>3
    <1>5. \A q \in DOMAIN g.cache : ca[q] = [g.cache[q] EXCEPT !.needSync = FALSE]
      OBVIOUS
    <1>6. w = [g EXCEPT !.counted = n, !.started = TRUE, !.cache = ca]
      BY DEF Synced
    <1> HIDE DEF ca, w
    <1>7. /\ w \in PagersWith(ca) /\ w.cache = ca /\ w.counted = n
          /\ w.state = g.state /\ w.dbSize = g.dbSize /\ w.origDbSize = g.origDbSize
          /\ w.journal = g.journal /\ w.inJournal = g.inJournal /\ w.stmt = g.stmt
          /\ w.alwaysRollback = g.alwaysRollback
      BY <1>1, <1>2, <1>6 DEF PagersWith
    <1>8. GoodPager(w)
      BY <1>1, <1>2, <1>4, <1>7 DEF GoodPager
    <1>9. ASSUME NEW q \in PageNumbers
          PROVE  /\ e2[q].content = e[q].content /\ e2[q].dirty = e[q].dirty
                 /\ e2[q].inJournal = e[q].inJournal
                 /\ e2[q].alwaysRollback = e[q].alwaysRollback
                 /\ ~e2[q].needSync
      <2>1. CASE q \in DOMAIN g.cache
        <3>1. e2[q] = ca[q] /\ e[q] = g.cache[q] /\ g.cache[q] \in Entries
          BY <2>1, <1>1, <1>4, <1>7 DEF View, EntryOf
        <3>2. e2[q] = [e[q] EXCEPT !.needSync = FALSE] /\ e[q] \in Entries
          BY <2>1, <3>1, <1>5
        <3> QED BY <3>2 DEF Entries
      <2>2. CASE q \notin DOMAIN g.cache
        <3>1. /\ e2[q] = e[q]
              /\ e[q] = Entry(IF q > g.dbSize THEN Zeros ELSE At(f, q), q \in g.inJournal)
          BY <2>2, <1>4, <1>7 DEF View, EntryOf
        <3>2. e[q].needSync = FALSE
          BY <3>1 DEF Entry
        <3> QED BY <3>1, <3>2
      <2> QED BY <2>1, <2>2
    <1> HIDE DEF e, e2
    <1>10. Flushed(g, e, w, e2)
      BY <1>7, <1>9 DEF Flushed
    <1> QED BY <1>4, <1>7, <1>8, <1>10 DEF w, e, e2

LEMMA SyncGood ==
    ASSUME NEW f, NEW g, NEW h \in SUBSET PageNumbers,
           NEW hb \in SUBSET PageNumbers, NEW hs \in SUBSET PageNumbers,
           NEW old, NEW mid, NEW d, NEW s, NEW ea, NEW e,
           PagerGood(f, g, e, h, hb, hs, old, mid, d, s, ea),
           NEW w, NEW e2, GoodPager(w), 1 \in DOMAIN w.cache, Flushed(g, e, w, e2)
    PROVE  PagerGood(f, w, e2, h, hb, hs, old, mid, d, s, ea)
    <1>1. /\ GoodPager(g) /\ g.state # "shared"
          /\ Marks(g, e) /\ Sizes(f, g, e) /\ NowKept(f, g, e, h)
          /\ TransKept(f, g, e, hb, old, d) /\ Flagged(g, e, hb \ h)
          /\ g.stmt.inUse => /\ StmtMarks(g)
                             /\ Flagged(g, e, (hb \cup hs) \ (h \cap hs))
                             /\ s \cap hs = {} => StmtKept(f, g, e, hs, mid)
      BY DEF PagerGood
    <1>2. /\ \A q \in PageNumbers : /\ e2[q].content = e[q].content /\ e2[q].dirty = e[q].dirty
                                    /\ e2[q].inJournal = e[q].inJournal
                                    /\ e2[q].alwaysRollback = e[q].alwaysRollback
          /\ w.state = g.state /\ w.dbSize = g.dbSize /\ w.origDbSize = g.origDbSize
          /\ w.journal = g.journal /\ w.inJournal = g.inJournal /\ w.stmt = g.stmt
          /\ w.alwaysRollback = g.alwaysRollback /\ w.counted = Len(g.journal)
      BY DEF Flushed
    <1>3. Marks(w, e2)
      BY <1>1, <1>2 DEF Marks
    <1>4. Sizes(f, w, e2)
      <2>1. g.dbSize \in PageNumbers
        BY <1>1, PagerFields
      <2> QED BY <2>1, <1>1, <1>2 DEF Sizes
    <1>5. NowKept(f, w, e2, h)
      BY <1>1, <1>2 DEF NowKept
    <1>6. TransKept(f, w, e2, hb, old, d)
      BY <1>1, <1>2 DEF TransKept
    <1>7. WaitKept(f, w, e2, hb, old, ea)
      <2>1. Len(g.journal) \in Nat
        BY <1>1, PagerFields
      <2>2. RecordedFrom(w.journal, w.counted) = {}
        BY <2>1, <1>2 DEF RecordedFrom
      <2> QED BY <2>2 DEF WaitKept
    <1>8. \A S \in SUBSET PageNumbers : Flagged(g, e, S) => Flagged(w, e2, S)
      BY <1>2 DEF Flagged
    <1>9. Flagged(w, e2, hb \ h)
      BY <1>1, <1>8
    <1>10. ASSUME w.stmt.inUse
           PROVE  /\ StmtMarks(w)
                  /\ Flagged(w, e2, (hb \cup hs) \ (h \cap hs))
                  /\ s \cap hs = {} => StmtKept(f, w, e2, hs, mid)
      <2>1. /\ StmtMarks(g)
            /\ Flagged(g, e, (hb \cup hs) \ (h \cap hs))
            /\ s \cap hs = {} => StmtKept(f, g, e, hs, mid)
        BY <1>1, <1>2, <1>10
      <2>2. InStmt(w) = InStmt(g)
        BY <1>2 DEF InStmt
      <2>3. StmtMarks(w)
        BY <2>1, <2>2, <1>2 DEF StmtMarks
      <2>4. Flagged(w, e2, (hb \cup hs) \ (h \cap hs))
        BY <2>1, <1>8
      <2>5. s \cap hs = {} => StmtKept(f, w, e2, hs, mid)
        BY <2>1, <2>2, <1>2 DEF StmtKept
      <2> QED BY <2>3, <2>4, <2>5
    <1> QED BY <1>1, <1>2, <1>3, <1>4, <1>5, <1>6, <1>7, <1>9, <1>10 DEF PagerGood

LEMMA EvictEffect ==
    ASSUME NEW f, GoodFile(f), NEW g, GoodPager(g), 1 \in DOMAIN g.cache,
           NEW p \in DOMAIN g.cache, p # 1, NEW f2, NEW w, Evicts(f, g, p, f2, w),
           NEW e, e = View(f, g)
    PROVE  /\ GoodFile(f2) /\ GoodPager(w) /\ 1 \in DOMAIN w.cache
           /\ Evicted(f, g, e, p, f2, w, View(f2, w))
    <1> DEFINE ca == [q \in DOMAIN g.cache \ {p} |-> g.cache[q]]
               st == IF g.cache[p].dirty THEN "exclusive" ELSE g.state
               ar == g.alwaysRollback \/ g.cache[p].alwaysRollback
               n == IF p > Len(f) THEN p ELSE Len(f)
               e2 == View(f2, w)
    <1>1. p \in PageNumbers /\ g.cache \in [DOMAIN g.cache -> Entries] /\ g.cache[p] \in Entries
          /\ g \in PagersWith(g.cache) /\ DOMAIN g.cache \subseteq PageNumbers
      BY DEF GoodPager
    <1>2. g.cache[p].dirty \in BOOLEAN /\ g.cache[p].alwaysRollback \in BOOLEAN
          /\ g.cache[p].content \in AllContents
      BY <1>1 DEF Entries
    <1>3. g.state \in {"shared", "reserved", "exclusive"} /\ g.alwaysRollback \in BOOLEAN
      BY PagerFields
    <1>4. ca \in [DOMAIN g.cache \ {p} -> Entries]
      BY <1>1
    <1>5. st \in {"shared", "reserved", "exclusive"} /\ ar \in BOOLEAN
      BY <1>2, <1>3
    <1>6. w = [g EXCEPT !.cache = ca, !.state = st, !.alwaysRollback = ar]
      BY DEF Evicts
    <1> HIDE DEF ca, st, ar
    <1>7. /\ w \in PagersWith(ca) /\ w.cache = ca /\ w.state = st /\ w.alwaysRollback = ar
          /\ w.dbSize = g.dbSize /\ w.origDbSize = g.origDbSize /\ w.journal = g.journal
          /\ w.inJournal = g.inJournal /\ w.stmt = g.stmt /\ w.counted = g.counted
      BY <1>1, <1>5, <1>6 DEF PagersWith
    <1>8. DOMAIN w.cache = DOMAIN g.cache \ {p}
          /\ \A q \in DOMAIN g.cache \ {p} : w.cache[q] = g.cache[q]
      BY <1>4, <1>7 DEF ca
    <1>9. GoodPager(w) /\ 1 \in DOMAIN w.cache
      BY <1>1, <1>4, <1>7, <1>8 DEF GoodPager
    <1>10. e[p] = g.cache[p]
      BY <1>1 DEF View, EntryOf
    <1>11. /\ GoodFile(f2)
           /\ \A q \in PageNumbers \ {p} : At(f2, q) = At(f, q)
           /\ e[p].dirty => /\ At(f2, p) = e[p].content /\ Len(f2) = n
           /\ ~e[p].dirty => f2 = f
      <2>1. CASE ~g.cache[p].dirty
        <3>1. f2 = f
          BY <2>1 DEF Evicts
        <3> QED BY <3>1, <2>1, <1>10
      <2>2. CASE g.cache[p].dirty
        <3>1. Len(f) \in Nat /\ Len(f) \in PageNumbers /\ p \in Nat /\ p >= 1
          BY <1>1, PageNumber DEF GoodFile
        <3>2. n \in PageNumbers /\ n \in Nat /\ p \in 1..n /\ Len(f) <= n
          BY <3>1, <1>1
        <3>3. f2 = [q \in 1..n |-> IF q = p THEN g.cache[p].content ELSE At(f, q)]
          BY <2>2 DEF Evicts
        <3>n. n = p \/ n = Len(f)
          OBVIOUS
        <3> HIDE DEF n
        <3>4. \A q \in 1..n : q \in PageNumbers
          BY <3>2, PageNumber DEF PageNumbers
        <3>5. f2 \in [1..n -> AllContents]
          <4>1. \A q \in 1..n : (IF q = p THEN g.cache[p].content ELSE At(f, q)) \in AllContents
            BY <3>4, <1>2, AtType
          <4> QED BY <4>1, <3>3
        <3>6. GoodFile(f2) /\ Len(f2) = n
          BY <3>2, <3>5, MakeFile
        <3>7. At(f2, p) = e[p].content
          <4>1. p <= n
            BY <3>1, <3>2
          <4> QED BY <4>1, <3>2, <3>3, <3>6, <1>10 DEF At
        <3>8. ASSUME NEW q \in PageNumbers \ {p}
              PROVE  At(f2, q) = At(f, q)
          <4>0. q \in Nat /\ q >= 1
            BY PageNumber
          <4>1. CASE q <= n
            <5>1. q \in 1..n
              BY <4>0, <4>1, <3>2
            <5>2. f2[q] = At(f, q)
              BY <5>1, <3>3
            <5> QED BY <5>2, <4>1, <3>6 DEF At
          <4>2. CASE ~(q <= n)
            <5>1. ~(q <= Len(f))
              BY <4>0, <4>2, <3>1, <3>2
            <5> QED BY <5>1, <4>2, <3>6 DEF At
          <4> QED BY <4>1, <4>2
        <3> QED BY <3>6, <3>7, <3>8, <2>2, <1>10
      <2> QED BY <2>1, <2>2
    <1>12. ASSUME NEW q \in PageNumbers \ {p}
           PROVE  e2[q] = e[q]
      <2>1. CASE q \in DOMAIN g.cache
        BY <2>1, <1>8 DEF View, EntryOf
      <2>2. CASE q \notin DOMAIN g.cache
        <3>1. q \notin DOMAIN w.cache /\ At(f2, q) = At(f, q)
          BY <2>2, <1>8, <1>11
        <3> QED BY <3>1, <2>2, <1>7 DEF View, EntryOf
      <2> QED BY <2>1, <2>2
    <1>13. e2[p] = Entry(IF p > g.dbSize THEN Zeros ELSE At(f2, p), p \in g.inJournal)
      BY <1>1, <1>7, <1>8 DEF View, EntryOf
    <1>14. /\ ~e2[p].dirty /\ (e2[p].inJournal <=> p \in g.inJournal)
           /\ e2[p].content = IF p > g.dbSize THEN Zeros ELSE At(f2, p)
      <2> DEFINE c == IF p > g.dbSize THEN Zeros ELSE At(f2, p)
                 j == p \in g.inJournal
                 x == e2[p]
      <2>1. x = Entry(c, j)
        BY <1>13
      <2> HIDE DEF c, j, x
      <2>2. x.dirty = FALSE /\ x.inJournal = j /\ x.content = c
        BY <2>1 DEF Entry
      <2> QED BY <2>2 DEF c, j, x
    <1> HIDE DEF e2
    <1>15. Evicted(f, g, e, p, f2, w, e2)
      BY <1>7, <1>10, <1>11, <1>12, <1>14 DEF Evicted, st, ar
    <1> QED BY <1>9, <1>11, <1>15 DEF e2

\* ... and everything is still kept.
LEMMA EvictGood ==
    ASSUME NEW f, GoodFile(f), NEW g, NEW h \in SUBSET PageNumbers,
           NEW hb \in SUBSET PageNumbers, NEW hs \in SUBSET PageNumbers,
           NEW old, NEW mid, NEW d, NEW s, NEW ea, NEW e, e \in [PageNumbers -> Entries],
           PagerGood(f, g, e, h, hb, hs, old, mid, d, s, ea),
           NEW p \in PageNumbers, NEW f2, GoodFile(f2), NEW w, NEW e2,
           GoodPager(w), 1 \in DOMAIN w.cache, Evicted(f, g, e, p, f2, w, e2), ~e[p].needSync
    PROVE  PagerGood(f2, w, e2, h, hb, hs, old, mid, d, s, ea)
    <1>1. /\ GoodPager(g) /\ g.state # "shared"
          /\ Marks(g, e) /\ Sizes(f, g, e) /\ NowKept(f, g, e, h)
          /\ TransKept(f, g, e, hb, old, d) /\ Flagged(g, e, hb \ h)
          /\ WaitKept(f, g, e, hb, old, ea)
          /\ g.stmt.inUse => /\ StmtMarks(g)
                             /\ Flagged(g, e, (hb \cup hs) \ (h \cap hs))
                             /\ s \cap hs = {} => StmtKept(f, g, e, hs, mid)
      BY DEF PagerGood
    <1>2. /\ ~e2[p].dirty /\ (e2[p].inJournal <=> p \in g.inJournal)
          /\ e2[p].content = IF p > g.dbSize THEN Zeros ELSE At(f2, p)
          /\ \A q \in PageNumbers \ {p} : e2[q] = e[q] /\ At(f2, q) = At(f, q)
          /\ e[p].dirty => /\ At(f2, p) = e[p].content /\ w.state = "exclusive"
                           /\ Len(f2) = IF p > Len(f) THEN p ELSE Len(f)
          /\ ~e[p].dirty => f2 = f /\ w.state = g.state
          /\ w.dbSize = g.dbSize /\ w.origDbSize = g.origDbSize /\ w.journal = g.journal
          /\ w.inJournal = g.inJournal /\ w.stmt = g.stmt /\ w.counted = g.counted
          /\ w.alwaysRollback <=> g.alwaysRollback \/ e[p].alwaysRollback
      BY DEF Evicted
    <1>3. /\ g.dbSize \in Nat /\ g.dbSize \in PageNumbers /\ g.origDbSize \in Nat
          /\ p \in Nat /\ Len(f) \in Nat /\ Len(f2) \in Nat
          /\ g.state \in {"shared", "reserved", "exclusive"}
      BY <1>1, PagerFields, PageNumber, LenProperties DEF GoodFile
    <1>4. g.origDbSize <= g.dbSize
      BY <1>1 DEF GoodPager
    <1>5. e[p].dirty => p <= g.dbSize
      BY <1>1, <1>3 DEF Marks
    <1>6. \A q \in PageNumbers : q <= g.origDbSize => ~(q > g.dbSize)
      BY <1>3, <1>4, PageNumber
    <1>7. p <= g.dbSize => e2[p].content = At(f2, p)
      BY <1>2, <1>3
    <1>8. Marks(w, e2)
      <2>1. /\ Recorded(g.journal) \subseteq g.inJournal /\ Once(g.journal)
            /\ \A q \in PageNumbers : q <= g.origDbSize => (e[q].inJournal <=> q \in g.inJournal)
            /\ \A q \in PageNumbers : q > g.dbSize => ~e[q].inJournal /\ ~e[q].dirty
        BY <1>1 DEF Marks
      <2>2. \A q \in PageNumbers : q <= g.origDbSize => (e2[q].inJournal <=> q \in g.inJournal)
        <3> SUFFICES ASSUME NEW q \in PageNumbers, q <= g.origDbSize
                     PROVE  e2[q].inJournal <=> q \in g.inJournal
          OBVIOUS
        <3> QED BY <2>1, <1>2
      <2>3. \A q \in PageNumbers : q > g.dbSize => ~e2[q].inJournal /\ ~e2[q].dirty
        <3> SUFFICES ASSUME NEW q \in PageNumbers, q > g.dbSize
                     PROVE  ~e2[q].inJournal /\ ~e2[q].dirty
          OBVIOUS
        <3>1. q \notin g.inJournal
          <4>1. g.inJournal \subseteq 1..g.origDbSize
            BY <1>1 DEF GoodPager
          <4> QED BY <4>1, <1>3, <1>4, PageNumber
        <3>2. CASE q = p
          BY <3>1, <3>2, <1>2
        <3>3. CASE q # p
          BY <3>3, <2>1, <1>2
        <3> QED BY <3>2, <3>3
      <2> QED BY <2>1, <2>2, <2>3, <1>2 DEF Marks
    <1>9. Sizes(f2, w, e2)
      <2>1. /\ Len(f) <= g.dbSize
            /\ g.dbSize <= Len(f) \/ e[g.dbSize].dirty
            /\ g.origDbSize <= Len(f)
        BY <1>1 DEF Sizes
      <2>2. CASE ~e[p].dirty
        <3>1. \A q \in PageNumbers : e[q].dirty => e2[q].dirty
          BY <2>2, <1>2
        <3>2. g.dbSize <= Len(f) \/ e2[g.dbSize].dirty
          BY <3>1, <2>1, <1>3
        <3> QED BY <2>1, <2>2, <3>2, <1>2 DEF Sizes
      <2>3. CASE e[p].dirty
        <3>1. Len(f) <= Len(f2) /\ p <= Len(f2) /\ Len(f2) <= g.dbSize
          BY <2>1, <2>3, <1>2, <1>3, <1>5
        <3>2. g.dbSize <= Len(f2) \/ e2[g.dbSize].dirty
          <4>1. CASE g.dbSize = p
            BY <3>1, <4>1
          <4>2. CASE g.dbSize # p
            <5>1. e2[g.dbSize] = e[g.dbSize]
              BY <4>2, <1>2, <1>3
            <5>2. g.dbSize <= Len(f) => g.dbSize <= Len(f2)
              BY <3>1, <1>3
            <5> QED BY <5>1, <5>2, <2>1
          <4> QED BY <4>1, <4>2
        <3>3. g.origDbSize <= Len(f2)
          BY <2>1, <3>1, <1>3
        <3>4. w.state = "exclusive"
          BY <2>3, <1>2
        <3> QED BY <3>1, <3>2, <3>3, <3>4, <1>2 DEF Sizes
      <2> QED BY <2>2, <2>3
    <1>10. NowKept(f2, w, e2, h)
      <2> SUFFICES ASSUME NEW q \in h
                   PROVE  q <= w.dbSize /\ (~e2[q].dirty => At(f2, q) = e2[q].content)
        BY DEF NowKept
      <2>1. q <= g.dbSize /\ (~e[q].dirty => At(f, q) = e[q].content)
        BY <1>1 DEF NowKept
      <2>2. CASE q = p
        BY <2>1, <2>2, <1>2, <1>7
      <2>3. CASE q # p
        BY <2>1, <2>3, <1>2
      <2> QED BY <2>2, <2>3
    <1>11. TransKept(f2, w, e2, hb, old, d)
      <2> SUFFICES ASSUME NEW q \in hb
                   PROVE  /\ q <= w.origDbSize
                          /\ w.state = "reserved" => At(f2, q) = old[q]
                          /\ q \in w.inJournal => Has(w.journal, 0, q, old[q])
                          /\ q \in w.inJournal /\ w.state = "reserved" => e2[q].dirty \/ q \in d
                          /\ q \notin w.inJournal => /\ At(f2, q) = old[q] /\ ~e2[q].dirty
                                                     /\ e2[q].content = old[q]
        BY DEF TransKept
      <2>1. /\ q <= g.origDbSize
            /\ g.state = "reserved" => At(f, q) = old[q]
            /\ q \in g.inJournal => Has(g.journal, 0, q, old[q])
            /\ q \in g.inJournal /\ g.state = "reserved" => e[q].dirty \/ q \in d
            /\ q \notin g.inJournal => At(f, q) = old[q] /\ ~e[q].dirty /\ e[q].content = old[q]
        BY <1>1 DEF TransKept
      <2>2. w.state = "reserved" => g.state = "reserved" /\ f2 = f /\ ~e[p].dirty
        BY <1>2
      <2>3. CASE q = p
        <3>1. q <= g.dbSize
          BY <2>1, <2>3, <1>3, <1>4
        <3> QED BY <2>1, <2>2, <2>3, <3>1, <1>2, <1>7
      <2>4. CASE q # p
        BY <2>1, <2>2, <2>4, <1>2
      <2> QED BY <2>3, <2>4
    <1>12. \A q \in PageNumbers : (g.alwaysRollback \/ e[q].alwaysRollback)
                                  => (w.alwaysRollback \/ e2[q].alwaysRollback)
      <2> SUFFICES ASSUME NEW q \in PageNumbers, g.alwaysRollback \/ e[q].alwaysRollback
                   PROVE  w.alwaysRollback \/ e2[q].alwaysRollback
        OBVIOUS
      <2>1. CASE q = p
        BY <2>1, <1>2
      <2>2. CASE q # p
        BY <2>2, <1>2
      <2> QED BY <2>1, <2>2
    <1>13. Flagged(w, e2, hb \ h)
      BY <1>1, <1>12 DEF Flagged
    <1>14. ASSUME w.stmt.inUse
           PROVE  /\ StmtMarks(w)
                  /\ Flagged(w, e2, (hb \cup hs) \ (h \cap hs))
                  /\ s \cap hs = {} => StmtKept(f2, w, e2, hs, mid)
      <2>1. /\ g.stmt.inUse /\ StmtMarks(g)
            /\ Flagged(g, e, (hb \cup hs) \ (h \cap hs))
            /\ s \cap hs = {} => StmtKept(f, g, e, hs, mid)
        BY <1>1, <1>2, <1>14
      <2>2. InStmt(w) = InStmt(g)
        BY <1>2 DEF InStmt
      <2>3. StmtMarks(w)
        BY <2>1, <2>2, <1>2 DEF StmtMarks
      <2>4. Flagged(w, e2, (hb \cup hs) \ (h \cap hs))
        BY <2>1, <1>12 DEF Flagged
      <2>5. ASSUME s \cap hs = {}
            PROVE  StmtKept(f2, w, e2, hs, mid)
        <3>1. StmtKept(f, g, e, hs, mid)
          BY <2>1, <2>5
        <3> SUFFICES ASSUME NEW q \in hs
                     PROVE  /\ q <= w.stmt.size
                            /\ q \in InStmt(w) => \/ Has(w.stmt.saved, 0, q, mid[q])
                                                  \/ Has(w.journal, w.stmt.skip, q, mid[q])
                            /\ q \in InStmt(w) /\ w.state = "reserved" => e2[q].dirty
                            /\ q \notin InStmt(w) => q \notin w.stmt.marked
                                                     /\ e2[q].content = mid[q]
                            /\ q \notin InStmt(w) /\ ~e2[q].dirty => At(f2, q) = mid[q]
          BY DEF StmtKept
        <3>2. /\ q <= g.stmt.size
              /\ q \in InStmt(g) => \/ Has(g.stmt.saved, 0, q, mid[q])
                                    \/ Has(g.journal, g.stmt.skip, q, mid[q])
              /\ q \in InStmt(g) /\ g.state = "reserved" => e[q].dirty
              /\ q \notin InStmt(g) => q \notin g.stmt.marked /\ e[q].content = mid[q]
              /\ q \notin InStmt(g) /\ ~e[q].dirty => At(f, q) = mid[q]
          BY <3>1 DEF StmtKept
        <3>3. w.state = "reserved" => g.state = "reserved" /\ f2 = f /\ ~e[p].dirty
          BY <1>2
        <3>4. CASE q = p
          <4>1. q <= g.dbSize
            <5>1. g.stmt.size <= g.dbSize /\ g.stmt.size \in Nat
              BY <1>1, <2>1, PagerFields DEF GoodPager
            <5> QED BY <5>1, <3>2, <3>4, <1>3
          <4>2. q \notin InStmt(g) => At(f2, q) = mid[q]
            <5>1. CASE e[p].dirty
              BY <5>1, <3>2, <3>4, <1>2
            <5>2. CASE ~e[p].dirty
              BY <5>2, <3>2, <3>4, <1>2
            <5> QED BY <5>1, <5>2
          <4>3. e2[q].content = At(f2, q)
            BY <4>1, <3>4, <1>7
          <4>4. ~(q \in InStmt(g) /\ w.state = "reserved")
            BY <3>2, <3>3, <3>4
          <4> QED BY <3>2, <4>2, <4>3, <4>4, <2>2, <1>2
        <3>5. CASE q # p
          <4>1. e2[q] = e[q] /\ At(f2, q) = At(f, q)
            BY <3>5, <1>2
          <4> QED BY <3>2, <3>3, <4>1, <2>2, <1>2
        <3> QED BY <3>4, <3>5
      <2> QED BY <2>3, <2>4, <2>5
    <1>15. w.state # "shared"
      BY <1>1, <1>2
    <1>16. WaitKept(f2, w, e2, hb, old, ea)
      <2> SUFFICES ASSUME NEW q \in hb \ ea, q \in RecordedFrom(w.journal, w.counted)
                   PROVE  At(f2, q) = old[q] /\ e2[q].needSync
        BY DEF WaitKept
      <2>1. At(f, q) = old[q] /\ e[q].needSync
        BY <1>1, <1>2 DEF WaitKept
      <2> QED BY <2>1, <1>2
    <1> QED BY <1>8, <1>9, <1>10, <1>11, <1>13, <1>14, <1>15, <1>16 DEF PagerGood

LEMMA MakeRoomKeeps ==
    ASSUME Kept, MakeRoom
    PROVE  Kept'
    <1> DEFINE h == Holding(Book)
               e0 == View(dbFile, pager)
               e2 == View(dbFile', pager')
    <1>p. PICK p \in DOMAIN pager.cache \ {1} :
             LET x == pager.cache[p]
             IN  /\ dbFile' = IF x.dirty
                              THEN [q \in 1..(IF p > Len(dbFile) THEN p ELSE Len(dbFile)) |->
                                       IF q = p THEN x.content ELSE InFile(q)]
                              ELSE dbFile
                 /\ \E g \in Unwritten(p) :
                       pager' = [g EXCEPT
                           !.cache = [q \in DOMAIN g.cache \ {p} |-> g.cache[q]],
                           !.state = IF x.dirty THEN "exclusive" ELSE g.state,
                           !.alwaysRollback = g.alwaysRollback \/ x.alwaysRollback]
      BY Zenon DEF MakeRoom
    <1>1. PICK g \in Unwritten(p) : Evicts(dbFile, g, p, dbFile', pager')
      <2>1. PICK g \in Unwritten(p) :
               pager' = [g EXCEPT
                   !.cache = [q \in DOMAIN g.cache \ {p} |-> g.cache[q]],
                   !.state = IF pager.cache[p].dirty THEN "exclusive" ELSE g.state,
                   !.alwaysRollback = g.alwaysRollback \/ pager.cache[p].alwaysRollback]
        BY <1>p, Zenon
      <2>2. g = pager \/ g = Synced(pager)
        BY DEF Unwritten
      <2>3. /\ g.cache[p].dirty = pager.cache[p].dirty
            /\ g.cache[p].content = pager.cache[p].content
            /\ g.cache[p].alwaysRollback = pager.cache[p].alwaysRollback
        <3>1. CASE g = pager
          BY <3>1
        <3>2. CASE g = Synced(pager)
          <4> DEFINE x == pager.cache[p]
          <4>1. Typed
            BY DEF Kept
          <4>2. x \in Entries
            BY <4>1 DEF Typed, GoodPager
          <4>3. g.cache[p] = [x EXCEPT !.needSync = FALSE]
            BY <3>2, <4>1 DEF Synced, Typed, GoodPager, PagersWith
          <4> HIDE DEF x
          <4>4. /\ [x EXCEPT !.needSync = FALSE].dirty = x.dirty
                /\ [x EXCEPT !.needSync = FALSE].content = x.content
                /\ [x EXCEPT !.needSync = FALSE].alwaysRollback = x.alwaysRollback
            BY <4>2 DEF Entries
          <4> QED BY <4>3, <4>4 DEF x
        <3> QED BY <2>2, <3>1, <3>2
      <2>4. Evicts(dbFile, g, p, dbFile', pager')
        BY <1>p, <2>1, <2>3 DEF Evicts, InFile, At
      <2> QED BY <2>4, Zenon
    <1> DEFINE e == View(dbFile, g)
    <1>2. /\ Book' = Book /\ atBegin' = atBegin /\ atStmt' = atStmt /\ dropped' = dropped
          /\ inStmt' = inStmt /\ early' = early /\ twice' = twice /\ calls' = calls
      BY DEF MakeRoom, ghosts, Book
    <1>3. /\ Typed /\ twice = {} /\ RowsKept(HeldBy(pager), Book)
          /\ IsList(HeldBy(pager), Book, pager.dbSize)
          /\ IF pager.state = "shared" THEN BetweenTransactions ELSE InTransaction
      BY DEF Kept
    <1>4. /\ GoodFile(dbFile) /\ GoodPager(pager) /\ 1 \in DOMAIN pager.cache
          /\ Book \in Books /\ atBegin \in Books /\ atStmt \in Books
          /\ inStmt \subseteq dropped /\ dropped \subseteq PageNumbers /\ early \subseteq PageNumbers
          /\ calls \in 0..MaxCalls
      BY <1>3 DEF Typed
    <1>5. p \in PageNumbers /\ p # 1
      BY <1>4 DEF GoodPager
    <1>6. /\ h \in SUBSET PageNumbers /\ Holding(atBegin) \in SUBSET PageNumbers
          /\ Holding(atStmt) \in SUBSET PageNumbers
      BY <1>4, BookParts
    <1>a. \/ g = pager /\ ~pager.cache[p].needSync
          \/ g = Synced(pager)
      BY DEF Unwritten
    <1>b. /\ GoodPager(Synced(pager)) /\ DOMAIN Synced(pager).cache = DOMAIN pager.cache
          /\ Flushed(pager, e0, Synced(pager), View(dbFile, Synced(pager)))
      BY <1>4, SyncEffect
    <1>c. GoodPager(g) /\ p \in DOMAIN g.cache /\ 1 \in DOMAIN g.cache
      BY <1>1, <1>4, <1>a, <1>b
    <1>d. /\ \A q \in PageNumbers : /\ e[q].content = e0[q].content /\ e[q].dirty = e0[q].dirty
                                    /\ e[q].inJournal = e0[q].inJournal
          /\ g.state = pager.state /\ g.dbSize = pager.dbSize
          /\ g.origDbSize = pager.origDbSize /\ g.journal = pager.journal
          /\ g.inJournal = pager.inJournal /\ g.stmt = pager.stmt
      <2>1. CASE g = pager
        BY <2>1
      <2>2. CASE g = Synced(pager)
        <3> HIDE DEF e0, e
        <3> QED BY <2>2, <1>b DEF Flushed, e
      <2> QED BY <2>1, <2>2, <1>a
    <1>e. ~e[p].needSync
      <2>1. CASE g = pager /\ ~pager.cache[p].needSync
        BY <2>1, <1>1, <1>5 DEF View, EntryOf
      <2>2. CASE g = Synced(pager)
        <3> HIDE DEF e0, e
        <3> QED BY <2>2, <1>b, <1>5 DEF Flushed, e
      <2> QED BY <2>1, <2>2, <1>a
    <1>7. e \in [PageNumbers -> Entries]
      BY <1>4, <1>c, ViewType
    <1>8. /\ GoodFile(dbFile') /\ GoodPager(pager') /\ 1 \in DOMAIN pager'.cache
          /\ Evicted(dbFile, g, e, p, dbFile', pager', e2)
      BY <1>1, <1>4, <1>c, EvictEffect
    <1>9. HeldBy(pager) = [q \in PageNumbers |-> e[q].content]
          /\ HeldBy(pager)' = [q \in PageNumbers |-> e2[q].content]
      <2>1. HeldBy(pager) = [q \in PageNumbers |-> e0[q].content]
            /\ HeldBy(pager)' = [q \in PageNumbers |-> e2[q].content]
        BY DEF HeldBy
      <2> HIDE DEF e0, e, e2
      <2> QED BY <2>1, <1>d
    <1>10. NowKept(dbFile, pager, e, h)
      <2>1. NowKept(dbFile, pager, e0, h)
        BY <1>3 DEF BetweenTransactions, InTransaction, PagerGood
      <2> HIDE DEF h, e0, e
      <2> QED BY <2>1, <1>6, <1>d DEF NowKept, h
    <1> HIDE DEF h, e0, e, e2
    <1>11. /\ ~e2[p].dirty /\ (e2[p].inJournal <=> p \in pager.inJournal)
           /\ e2[p].content = IF p > pager.dbSize THEN Zeros ELSE At(dbFile', p)
           /\ \A q \in PageNumbers \ {p} : e2[q] = e[q] /\ At(dbFile', q) = At(dbFile, q)
           /\ e[p].dirty => At(dbFile', p) = e[p].content /\ pager'.state = "exclusive"
           /\ ~e[p].dirty => dbFile' = dbFile /\ pager'.state = pager.state
           /\ pager'.dbSize = pager.dbSize /\ pager'.origDbSize = pager.origDbSize
           /\ pager'.journal = pager.journal
           /\ pager'.inJournal = pager.inJournal /\ pager'.stmt = pager.stmt
      BY <1>8, <1>d DEF Evicted
    <1>12. \A q \in h : q <= pager.dbSize /\ ~(q > pager.dbSize)
      <2>1. \A q \in h : q \in Nat /\ q <= pager.dbSize
        BY <1>6, <1>10, PageNumber DEF NowKept
      <2>2. pager.dbSize \in Nat
        BY <1>4, PagerFields
      <2> QED BY <2>1, <2>2
    <1>13. SameIn(HeldBy(pager), HeldBy(pager)', h)
      <2> SUFFICES ASSUME NEW q \in h PROVE e2[q].content = e[q].content
        BY <1>6, <1>9 DEF SameIn
      <2>1. CASE q = p
        <3>1. e2[p].content = At(dbFile', p)
          BY <2>1, <1>11, <1>12
        <3>2. ~e[p].dirty => At(dbFile, p) = e[p].content
          BY <2>1, <1>10 DEF NowKept
        <3> QED BY <2>1, <3>1, <3>2, <1>11
      <2>2. CASE q # p
        BY <2>2, <1>6, <1>11
      <2> QED BY <2>1, <2>2
    <1>14. RowsKept(HeldBy(pager)', Book) /\ IsList(HeldBy(pager)', Book, pager.dbSize)
      <2> DEFINE c == HeldBy(pager)
                 c2 == HeldBy(pager)'
                 b == Book
                 n == pager.dbSize
      <2>1. b \in Books /\ IsList(c, b, n) /\ RowsKept(c, b) /\ SameIn(c, c2, Holding(b))
        BY <1>3, <1>4, <1>13 DEF h
      <2> HIDE DEF c, c2, b, n
      <2>2. IsList(c2, b, n) /\ RowsKept(c2, b)
        BY <2>1, ListSame
      <2> QED BY <2>2 DEF c, c2, b, n
    <1>15. Typed'
      BY <1>2, <1>4, <1>8 DEF Typed
    <1>16. CASE pager.state = "shared"
      <2>1. /\ pager.journal = <<>> /\ pager.inJournal = {} /\ ~pager.stmt.inUse
            /\ dropped = {} /\ inStmt = {} /\ Len(dbFile) = pager.dbSize
            /\ \A q \in PageNumbers : ~e[q].dirty /\ ~e[q].inJournal
        <3>1. /\ pager.journal = <<>> /\ pager.inJournal = {} /\ ~pager.stmt.inUse
              /\ dropped = {} /\ inStmt = {} /\ Len(dbFile) = pager.dbSize
              /\ \A q \in PageNumbers : ~e0[q].dirty /\ ~e0[q].inJournal
          BY <1>3, <1>16 DEF BetweenTransactions, e0
        <3> QED BY <3>1, <1>d
      <2>2. dbFile' = dbFile /\ pager'.state = "shared"
        BY <2>1, <1>5, <1>11, <1>16
      <2>3. \A q \in PageNumbers : ~e2[q].dirty /\ ~e2[q].inJournal
        <3> SUFFICES ASSUME NEW q \in PageNumbers PROVE ~e2[q].dirty /\ ~e2[q].inJournal
          OBVIOUS
        <3>1. CASE q = p
          BY <3>1, <2>1, <1>11
        <3>2. CASE q # p
          BY <3>2, <2>1, <1>11
        <3> QED BY <3>1, <3>2
      <2>4. NowKept(dbFile', pager', e2, h)
        <3> SUFFICES ASSUME NEW q \in h
                     PROVE  q <= pager'.dbSize /\ At(dbFile', q) = e2[q].content
          BY DEF NowKept
        <3>1. CASE q = p
          BY <3>1, <1>11, <1>12
        <3>2. CASE q # p
          <4>1. q \in PageNumbers /\ At(dbFile, q) = e[q].content
            BY <2>1, <1>6, <1>10 DEF NowKept
          <4> QED BY <3>2, <4>1, <1>11, <1>12
        <3> QED BY <3>1, <3>2
      <2>5. BetweenTransactions'
        BY <2>1, <2>2, <2>3, <2>4, <1>2, <1>11 DEF BetweenTransactions, e2, h
      <2> QED BY <2>2, <2>5, <1>2, <1>3, <1>11, <1>14, <1>15 DEF Kept
    <1>17. CASE pager.state # "shared"
      <2>1. PICK old, mid :
               /\ Remembered(old, mid)
               /\ PagerGood(dbFile, g, e, h, Holding(atBegin), Holding(atStmt),
                            old, mid, dropped, inStmt, early)
        <3>1. PICK old, mid :
                 /\ Remembered(old, mid)
                 /\ PagerGood(dbFile, pager, e0, h, Holding(atBegin), Holding(atStmt),
                              old, mid, dropped, inStmt, early)
          BY <1>3, <1>17 DEF InTransaction, e0, h
        <3>2. CASE g = pager
          BY <3>1, <3>2 DEF e, e0
        <3>3. CASE g = Synced(pager)
          <4> DEFINE hb == Holding(atBegin)
                     hs == Holding(atStmt)
          <4>1. /\ GoodPager(g) /\ 1 \in DOMAIN g.cache /\ Flushed(pager, e0, g, e)
                /\ h \in SUBSET PageNumbers /\ hb \in SUBSET PageNumbers
                /\ hs \in SUBSET PageNumbers
                /\ PagerGood(dbFile, pager, e0, h, hb, hs, old, mid, dropped, inStmt, early)
            BY <3>1, <3>3, <1>6, <1>b, <1>c DEF e
          <4> HIDE DEF hb, hs
          <4>2. PagerGood(dbFile, g, e, h, hb, hs, old, mid, dropped, inStmt, early)
            BY <4>1, SyncGood
          <4> QED BY <3>1, <4>2 DEF hb, hs
        <3> QED BY <3>2, <3>3, <1>a
      <2>2. PagerGood(dbFile', pager', e2, h, Holding(atBegin), Holding(atStmt),
                      old, mid, dropped, inStmt, early)
        <3> DEFINE hb == Holding(atBegin)
                   hs == Holding(atStmt)
                   f2 == dbFile'
                   w == pager'
        <3>1. /\ GoodFile(f2) /\ GoodPager(w) /\ 1 \in DOMAIN w.cache
              /\ Evicted(dbFile, g, e, p, f2, w, e2)
              /\ h \in SUBSET PageNumbers /\ hb \in SUBSET PageNumbers
              /\ hs \in SUBSET PageNumbers
              /\ PagerGood(dbFile, g, e, h, hb, hs, old, mid, dropped, inStmt, early)
          BY <2>1, <1>6, <1>8
        <3> HIDE DEF hb, hs, f2, w
        <3>2. PagerGood(f2, w, e2, h, hb, hs, old, mid, dropped, inStmt, early)
          BY <3>1, <1>4, <1>5, <1>7, <1>e, EvictGood
        <3> QED BY <3>2 DEF hb, hs, f2, w
      <2>3. Remembered(old, mid)'
        BY <2>1, <1>2, <1>11 DEF Remembered
      <2>4. InTransaction'
        BY <2>2, <2>3, <1>2 DEF InTransaction, e2, h
      <2>5. pager'.state # "shared"
        BY <2>2 DEF PagerGood
      <2> QED BY <2>4, <2>5, <1>2, <1>3, <1>11, <1>14, <1>15 DEF Kept
    <1> HIDE DEF e0
    <1> QED BY <1>16, <1>17, ZenonT(30)

-----------------------------------------------------------------------------
\* The pager holds the same as long as the cache, the size and the bitmap stay.
LEMMA ViewSame ==
    ASSUME NEW f, NEW g, NEW w, w.cache = g.cache, w.dbSize = g.dbSize,
           w.inJournal = g.inJournal
    PROVE  View(f, w) = View(f, g)
    BY DEF View, EntryOf

\* A transaction begins.
LEMMA BeginTransKeeps ==
    ASSUME Kept, BeginTrans
    PROVE  Kept'
    <1> DEFINE h == Holding(Book)
               e == View(dbFile, pager)
    <1>0. PICK c : c = HeldBy(pager)
      OBVIOUS
    <1>1. /\ pager.state = "shared"
          /\ pager' = [pager EXCEPT !.state = "reserved", !.origDbSize = pager.dbSize,
                                    !.alwaysRollback = FALSE]
          /\ atBegin' = Book /\ Book' = Book
          /\ dbFile' = dbFile /\ atStmt' = atStmt /\ dropped' = dropped
          /\ inStmt' = inStmt /\ early' = early /\ twice' = twice /\ calls' = calls
      BY DEF BeginTrans, Book
    <1>2. /\ Typed /\ twice = {} /\ RowsKept(c, Book)
          /\ IsList(c, Book, pager.dbSize) /\ BetweenTransactions
      BY <1>0, <1>1 DEF Kept
    <1>3. /\ GoodFile(dbFile) /\ GoodPager(pager) /\ 1 \in DOMAIN pager.cache
          /\ Book \in Books /\ atBegin \in Books /\ atStmt \in Books
          /\ inStmt \subseteq dropped /\ dropped \subseteq PageNumbers /\ early \subseteq PageNumbers
          /\ calls \in 0..MaxCalls
      BY <1>2 DEF Typed
    <1>4. /\ pager.journal = <<>> /\ pager.inJournal = {} /\ ~pager.stmt.inUse
          /\ dropped = {} /\ inStmt = {} /\ Len(dbFile) = pager.dbSize
          /\ \A q \in PageNumbers : ~e[q].dirty /\ ~e[q].inJournal
          /\ NowKept(dbFile, pager, e, h)
      BY <1>2 DEF BetweenTransactions
    <1>5. pager \in PagersWith(pager.cache) /\ pager.dbSize \in PageNumbers /\ pager.dbSize \in Nat
          /\ pager.dbSize <= MostPages
      BY <1>3, PagerFields, PageNumber DEF GoodPager
    <1>6. /\ pager' \in PagersWith(pager.cache)
          /\ pager'.cache = pager.cache /\ pager'.state = "reserved"
          /\ pager'.dbSize = pager.dbSize /\ pager'.origDbSize = pager.dbSize
          /\ pager'.journal = pager.journal /\ pager'.inJournal = pager.inJournal
          /\ pager'.stmt = pager.stmt /\ pager'.counted = pager.counted
      <2>1. pager.dbSize \in 0..MostPages
        BY <1>5, PageNumber
      <2> QED BY <2>1, <1>1, <1>5 DEF PagersWith
    <1>7. GoodPager(pager')
      <2>1. pager'.cache \in [DOMAIN pager'.cache -> Entries] /\ DOMAIN pager'.cache \subseteq PageNumbers
        BY <1>3, <1>6 DEF GoodPager
      <2>2. pager'.inJournal = {} /\ ~pager'.stmt.inUse /\ pager'.origDbSize <= pager'.dbSize
        BY <1>4, <1>5, <1>6
      <2>3. pager'.counted <= Len(pager'.journal)
        BY <1>3, <1>6 DEF GoodPager
      <2> QED BY <2>1, <2>2, <2>3, <1>6 DEF GoodPager
    <1>8. View(dbFile, pager') = e
      BY <1>6, ViewSame
    <1>9. HeldBy(pager)' = c
      BY <1>0, <1>1, <1>8 DEF HeldBy
    <1>10. e \in [PageNumbers -> Entries] /\ h \in SUBSET PageNumbers
      BY <1>3, ViewType, BookParts
    <1>11. c = [q \in PageNumbers |-> e[q].content]
      BY <1>0 DEF HeldBy
    <1> HIDE DEF h, e
    <1>12. Marks(pager', e)
      <2>1. Recorded(<<>>) = {} /\ Once(<<>>)
        BY DEF Recorded, Once
      <2> QED BY <2>1, <1>4, <1>6 DEF Marks
    <1>13. Sizes(dbFile, pager', e)
      BY <1>4, <1>5, <1>6 DEF Sizes
    <1>14. NowKept(dbFile, pager', e, h)
      BY <1>4, <1>6 DEF NowKept
    <1>15. TransKept(dbFile, pager', e, h, c, dropped)
      <2> SUFFICES ASSUME NEW q \in h
                   PROVE  /\ q <= pager'.origDbSize /\ q \notin pager'.inJournal
                          /\ At(dbFile, q) = c[q] /\ ~e[q].dirty /\ e[q].content = c[q]
        BY DEF TransKept
      <2>1. q <= pager.dbSize /\ (~e[q].dirty => At(dbFile, q) = e[q].content)
        BY <1>4 DEF NowKept
      <2> QED BY <2>1, <1>4, <1>6, <1>10, <1>11
    <1>a. WaitKept(dbFile, pager', e, h, c, early)
      <2>1. pager'.counted \in Nat /\ pager'.journal = <<>>
        BY <1>4, <1>6, <1>7, PagerFields
      <2>2. RecordedFrom(pager'.journal, pager'.counted) = {}
        BY <2>1 DEF RecordedFrom
      <2> QED BY <2>2 DEF WaitKept
    <1>16. Flagged(pager', e, h \ h)
      BY DEF Flagged
    <1>17. PagerGood(dbFile, pager', e, h, h, Holding(atStmt), c, c, dropped, inStmt, early)
      BY <1>3, <1>4, <1>6, <1>7, <1>12, <1>13, <1>14, <1>15, <1>a, <1>16 DEF PagerGood
    <1>18. Remembered(c, c)'
      BY <1>1, <1>2, <1>4, <1>6, <1>9 DEF Remembered
    <1>19. InTransaction'
      <2>1. /\ h = Holding(Book)' /\ h = Holding(atBegin)' /\ Holding(atStmt)' = Holding(atStmt)
            /\ View(dbFile, pager)' = e
        BY <1>1, <1>8 DEF h
      <2> QED BY <2>1, <1>1, <1>17, <1>18 DEF InTransaction
    <1>20. Typed'
      BY <1>1, <1>3, <1>6, <1>7 DEF Typed
    <1> QED BY <1>1, <1>2, <1>6, <1>9, <1>19, <1>20 DEF Kept

\* What a statement starts and ends with.
LEMMA InStatement ==
    ASSUME Kept, pager.state # "shared"
    PROVE  /\ Typed /\ twice = {} /\ RowsKept(HeldBy(pager), Book)
           /\ IsList(HeldBy(pager), Book, pager.dbSize)
           /\ GoodFile(dbFile) /\ GoodPager(pager) /\ 1 \in DOMAIN pager.cache
           /\ Book \in Books /\ atBegin \in Books /\ atStmt \in Books
           /\ inStmt \subseteq dropped /\ dropped \subseteq PageNumbers
           /\ early \subseteq PageNumbers /\ calls \in 0..MaxCalls
           /\ Holding(Book) \in SUBSET PageNumbers /\ Holding(atBegin) \in SUBSET PageNumbers
           /\ Holding(atStmt) \in SUBSET PageNumbers
           /\ 1 \in Holding(Book) /\ 1 \in Holding(atBegin) /\ 1 \in Holding(atStmt)
           /\ View(dbFile, pager) \in [PageNumbers -> Entries]
           /\ \E old, mid :
                /\ Remembered(old, mid)
                /\ PagerGood(dbFile, pager, View(dbFile, pager), Holding(Book), Holding(atBegin),
                             Holding(atStmt), old, mid, dropped, inStmt, early)
    <1>1. /\ Typed /\ twice = {} /\ RowsKept(HeldBy(pager), Book)
          /\ IsList(HeldBy(pager), Book, pager.dbSize) /\ InTransaction
      BY DEF Kept
    <1>2. /\ GoodFile(dbFile) /\ GoodPager(pager) /\ 1 \in DOMAIN pager.cache
          /\ Book \in Books /\ atBegin \in Books /\ atStmt \in Books
          /\ inStmt \subseteq dropped /\ dropped \subseteq PageNumbers
          /\ early \subseteq PageNumbers /\ calls \in 0..MaxCalls
      BY <1>1 DEF Typed
    <1>3. /\ Holding(Book) \in SUBSET PageNumbers /\ Holding(atBegin) \in SUBSET PageNumbers
          /\ Holding(atStmt) \in SUBSET PageNumbers
          /\ 1 \in Holding(Book) /\ 1 \in Holding(atBegin) /\ 1 \in Holding(atStmt)
      BY <1>2, BookParts
    <1>4. View(dbFile, pager) \in [PageNumbers -> Entries]
      BY <1>2, ViewType
    <1> QED BY <1>1, <1>2, <1>3, <1>4 DEF InTransaction

\* A pager with other records of the statement.
LEMMA StmtType ==
    ASSUME NEW g, GoodPager(g), NEW st \in Statements, NEW w, w = [g EXCEPT !.stmt = st],
           st.inUse => /\ g.origDbSize <= st.size /\ st.size <= g.dbSize
                       /\ st.skip <= Len(g.journal) /\ st.marked \subseteq 1..st.size
    PROVE  /\ GoodPager(w)
           /\ w.cache = g.cache /\ w.state = g.state /\ w.dbSize = g.dbSize
           /\ w.origDbSize = g.origDbSize /\ w.alwaysRollback = g.alwaysRollback
           /\ w.journal = g.journal /\ w.inJournal = g.inJournal /\ w.stmt = st
           /\ w.counted = g.counted
    <1>1. g \in PagersWith(g.cache)
      BY DEF GoodPager
    <1>2. /\ w \in PagersWith(g.cache)
          /\ w.cache = g.cache /\ w.state = g.state /\ w.dbSize = g.dbSize
          /\ w.origDbSize = g.origDbSize /\ w.alwaysRollback = g.alwaysRollback
          /\ w.journal = g.journal /\ w.inJournal = g.inJournal /\ w.stmt = st
          /\ w.counted = g.counted
      BY <1>1 DEF PagersWith
    <1> QED BY <1>2 DEF GoodPager

\* A statement begins.
LEMMA BeginStmtKeeps ==
    ASSUME Kept, BeginStmt
    PROVE  Kept'
    <1> DEFINE h == Holding(Book)
               hb == Holding(atBegin)
               e == View(dbFile, pager)
               st == [inUse |-> TRUE, size |-> pager.dbSize, skip |-> Len(pager.journal),
                      saved |-> <<>>, marked |-> {}]
    <1>0. PICK c : c = HeldBy(pager)
      OBVIOUS
    <1>1. /\ pager.state # "shared" /\ ~pager.stmt.inUse
          /\ pager' = [pager EXCEPT !.stmt = st]
          /\ atStmt' = Book /\ inStmt' = {} /\ Book' = Book
          /\ dbFile' = dbFile /\ atBegin' = atBegin /\ dropped' = dropped
          /\ early' = early /\ twice' = twice /\ calls' = calls
      BY DEF BeginStmt, Book, InTrans
    <1>2. /\ Typed /\ twice = {} /\ RowsKept(c, Book) /\ IsList(c, Book, pager.dbSize)
          /\ GoodFile(dbFile) /\ GoodPager(pager) /\ 1 \in DOMAIN pager.cache
          /\ Book \in Books /\ atBegin \in Books
          /\ dropped \subseteq PageNumbers /\ early \subseteq PageNumbers
          /\ calls \in 0..MaxCalls
          /\ h \in SUBSET PageNumbers /\ e \in [PageNumbers -> Entries]
      BY <1>0, <1>1, InStatement
    <1>3. PICK old, mid : /\ Remembered(old, mid)
                          /\ PagerGood(dbFile, pager, e, h, hb, Holding(atStmt), old, mid,
                                       dropped, inStmt, early)
      BY <1>1, InStatement
    <1>4. /\ Marks(pager, e) /\ Sizes(dbFile, pager, e) /\ NowKept(dbFile, pager, e, h)
          /\ TransKept(dbFile, pager, e, hb, old, dropped) /\ Flagged(pager, e, hb \ h)
          /\ WaitKept(dbFile, pager, e, hb, old, early)
      BY <1>3 DEF PagerGood
    <1>5. /\ pager.dbSize \in Nat /\ pager.dbSize \in PageNumbers /\ pager.journal \in Seq(Records)
          /\ Len(pager.journal) \in Nat /\ pager.origDbSize <= pager.dbSize
      BY <1>2, PagerFields DEF GoodPager
    <1>6. /\ st \in Statements
          /\ st.inUse /\ st.size = pager.dbSize /\ st.skip = Len(pager.journal)
          /\ st.saved = <<>> /\ st.marked = {}
      <2>1. pager.dbSize \in 0..MostPages
        BY <1>5, PageNumber
      <2>2. <<>> \in Seq(Records)
        OBVIOUS
      <2> QED BY <2>1, <2>2, <1>5 DEF Statements
    <1> HIDE DEF st
    <1>7. /\ GoodPager(pager')
          /\ pager'.cache = pager.cache /\ pager'.state = pager.state
          /\ pager'.dbSize = pager.dbSize /\ pager'.origDbSize = pager.origDbSize
          /\ pager'.alwaysRollback = pager.alwaysRollback
          /\ pager'.journal = pager.journal /\ pager'.inJournal = pager.inJournal
          /\ pager'.stmt = st /\ pager'.counted = pager.counted
      <2>1. /\ pager.origDbSize <= st.size /\ st.size <= pager.dbSize
            /\ st.skip <= Len(pager.journal) /\ st.marked \subseteq 1..st.size
        BY <1>5, <1>6
      <2> QED BY <2>1, <1>1, <1>2, <1>6, StmtType
    <1>8. View(dbFile, pager') = e
      BY <1>7, ViewSame
    <1>9. HeldBy(pager)' = c
      BY <1>0, <1>1, <1>8 DEF HeldBy
    <1>10. c = [q \in PageNumbers |-> e[q].content]
      BY <1>0 DEF HeldBy
    <1> HIDE DEF h, e, hb
    <1>11. Marks(pager', e) /\ Sizes(dbFile, pager', e) /\ NowKept(dbFile, pager', e, h)
      BY <1>4, <1>7 DEF Marks, Sizes, NowKept
    <1>12. /\ TransKept(dbFile, pager', e, hb, old, dropped) /\ Flagged(pager', e, hb \ h)
           /\ WaitKept(dbFile, pager', e, hb, old, early)
      BY <1>4, <1>7 DEF TransKept, Flagged, WaitKept
    <1>13. InStmt(pager') = {}
      <2>1. Recorded(<<>>) = {}
        BY DEF Recorded
      <2>2. RecordedFrom(pager.journal, Len(pager.journal)) = {}
        <3> DEFINE n == Len(pager.journal)
        <3>1. n \in Nat
          BY <1>5
        <3> HIDE DEF n
        <3>2. n + 1..n = {}
          BY <3>1
        <3> QED BY <3>2 DEF RecordedFrom, n
      <2> QED BY <2>1, <2>2, <1>6, <1>7 DEF InStmt
    <1>14. StmtMarks(pager')
      <2>1. Recorded(<<>>) = {} /\ Once(<<>>)
        BY DEF Recorded, Once
      <2> QED BY <2>1, <1>6, <1>7, <1>13 DEF StmtMarks
    <1>15. Flagged(pager', e, (hb \cup h) \ (h \cap h))
      BY <1>12 DEF Flagged
    <1>16. StmtKept(dbFile, pager', e, h, c)
      <2> SUFFICES ASSUME NEW q \in h
                   PROVE  /\ q <= pager'.stmt.size /\ q \notin pager'.stmt.marked
                          /\ e[q].content = c[q] /\ (~e[q].dirty => At(dbFile, q) = c[q])
        BY <1>13 DEF StmtKept
      <2>1. q <= pager.dbSize /\ (~e[q].dirty => At(dbFile, q) = e[q].content)
        BY <1>4 DEF NowKept
      <2>2. e[q].content = c[q]
        BY <1>2, <1>10
      <2> QED BY <2>1, <2>2, <1>6, <1>7
    <1>17. PagerGood(dbFile, pager', e, h, hb, h, old, c, dropped, {}, early)
      BY <1>1, <1>2, <1>7, <1>11, <1>12, <1>14, <1>15, <1>16 DEF PagerGood
    <1>18. Remembered(old, c)'
      BY <1>1, <1>2, <1>3, <1>6, <1>7 DEF Remembered
    <1>19. InTransaction'
      <2>1. /\ h = Holding(Book)' /\ hb = Holding(atBegin)' /\ h = Holding(atStmt)'
            /\ View(dbFile, pager)' = e
        BY <1>1, <1>8 DEF h, hb
      <2> QED BY <2>1, <1>1, <1>17, <1>18 DEF InTransaction
    <1>20. Typed'
      BY <1>1, <1>2, <1>7 DEF Typed
    <1> QED BY <1>1, <1>2, <1>7, <1>9, <1>19, <1>20 DEF Kept

\* ... and is committed.
LEMMA CommitStmtKeeps ==
    ASSUME Kept, CommitStmt
    PROVE  Kept'
    <1> DEFINE h == Holding(Book)
               hb == Holding(atBegin)
               hs == Holding(atStmt)
               e == View(dbFile, pager)
    <1>0. PICK c : c = HeldBy(pager)
      OBVIOUS
    <1>1. /\ pager.stmt.inUse
          /\ pager' = [pager EXCEPT !.stmt = NoStmt]
          /\ atStmt' = atStmt /\ inStmt' = {} /\ Book' = Book
          /\ dbFile' = dbFile /\ atBegin' = atBegin /\ dropped' = dropped
          /\ early' = early /\ twice' = twice /\ calls' = calls
      BY DEF CommitStmt, Book
    <1>a. pager.state # "shared"
      BY <1>1 DEF Kept, BetweenTransactions
    <1>2. /\ Typed /\ twice = {} /\ RowsKept(c, Book) /\ IsList(c, Book, pager.dbSize)
          /\ GoodFile(dbFile) /\ GoodPager(pager) /\ 1 \in DOMAIN pager.cache
          /\ Book \in Books /\ atBegin \in Books /\ atStmt \in Books
          /\ dropped \subseteq PageNumbers /\ early \subseteq PageNumbers
          /\ calls \in 0..MaxCalls
      BY <1>0, <1>a, InStatement
    <1>3. PICK old, mid : /\ Remembered(old, mid)
                          /\ PagerGood(dbFile, pager, e, h, hb, hs, old, mid, dropped, inStmt, early)
      BY <1>a, InStatement
    <1>4. /\ Marks(pager, e) /\ Sizes(dbFile, pager, e) /\ NowKept(dbFile, pager, e, h)
          /\ TransKept(dbFile, pager, e, hb, old, dropped) /\ Flagged(pager, e, hb \ h)
          /\ WaitKept(dbFile, pager, e, hb, old, early)
      BY <1>3 DEF PagerGood
    <1>6. NoStmt \in Statements /\ ~NoStmt.inUse
      <2>1. <<>> \in Seq(Records) /\ 0 \in 0..MostPages
        BY PageNumber
      <2> QED BY <2>1 DEF Statements, NoStmt
    <1>7. /\ GoodPager(pager')
          /\ pager'.cache = pager.cache /\ pager'.state = pager.state
          /\ pager'.dbSize = pager.dbSize /\ pager'.origDbSize = pager.origDbSize
          /\ pager'.alwaysRollback = pager.alwaysRollback
          /\ pager'.journal = pager.journal /\ pager'.inJournal = pager.inJournal
          /\ pager'.stmt = NoStmt /\ pager'.counted = pager.counted
      BY <1>1, <1>2, <1>6, StmtType
    <1>8. View(dbFile, pager') = e
      BY <1>7, ViewSame
    <1>9. HeldBy(pager)' = c
      BY <1>0, <1>1, <1>8 DEF HeldBy
    <1> HIDE DEF h, e, hb, hs
    <1>11. Marks(pager', e) /\ Sizes(dbFile, pager', e) /\ NowKept(dbFile, pager', e, h)
      BY <1>4, <1>7 DEF Marks, Sizes, NowKept
    <1>12. /\ TransKept(dbFile, pager', e, hb, old, dropped) /\ Flagged(pager', e, hb \ h)
           /\ WaitKept(dbFile, pager', e, hb, old, early)
      BY <1>4, <1>7 DEF TransKept, Flagged, WaitKept
    <1>17. PagerGood(dbFile, pager', e, h, hb, hs, old, mid, dropped, {}, early)
      BY <1>2, <1>6, <1>7, <1>a, <1>11, <1>12 DEF PagerGood
    <1>18. Remembered(old, mid)'
      BY <1>1, <1>3, <1>6, <1>7 DEF Remembered
    <1>19. InTransaction'
      <2>1. /\ h = Holding(Book)' /\ hb = Holding(atBegin)' /\ hs = Holding(atStmt)'
            /\ View(dbFile, pager)' = e
        BY <1>1, <1>8 DEF h, hb, hs
      <2> QED BY <2>1, <1>1, <1>17, <1>18 DEF InTransaction
    <1>20. Typed'
      BY <1>1, <1>2, <1>7 DEF Typed
    <1> QED BY <1>1, <1>2, <1>7, <1>9, <1>a, <1>19, <1>20 DEF Kept

-----------------------------------------------------------------------------
\* What is left when a transaction ends, with the cache ca and a file of n pages.
EndsAs(f, ca, n, w) ==
    /\ GoodPager(w) /\ 1 \in DOMAIN w.cache
    /\ w.state = "shared" /\ w.dbSize = n /\ w.journal = <<>> /\ w.inJournal = {}
    /\ ~w.stmt.inUse
    /\ \A p \in PageNumbers :
         /\ ~View(f, w)[p].dirty /\ ~View(f, w)[p].inJournal
         /\ p \in DOMAIN ca => View(f, w)[p].content = ca[p].content
         /\ p \notin DOMAIN ca /\ ~(p > n) => View(f, w)[p].content = At(f, p)

\* A transaction ends: with a cache and a file that agree, and agree with the
\* contents c in what the B-tree goes on with.
LEMMA EndedIs ==
    ASSUME GoodPager(pager), NEW ca, ca \in [DOMAIN ca -> Entries], DOMAIN ca \subseteq PageNumbers,
           1 \in DOMAIN ca, NEW n \in PageNumbers, NEW w, w = Ended(ca, n), NEW f
    PROVE  EndsAs(f, ca, n, w)
    <1> DEFINE cb == [p \in DOMAIN ca |-> [ca[p] EXCEPT !.inJournal = FALSE, !.dirty = FALSE,
                                                        !.needSync = FALSE]]
    <1>1. pager \in PagersWith(pager.cache)
      BY DEF GoodPager
    <1>2. \A p \in DOMAIN ca : /\ cb[p] \in Entries /\ cb[p].content = ca[p].content
                               /\ cb[p].inJournal = FALSE /\ cb[p].dirty = FALSE
      <2> SUFFICES ASSUME NEW p \in DOMAIN ca
                   PROVE  /\ cb[p] \in Entries /\ cb[p].content = ca[p].content
                          /\ cb[p].inJournal = FALSE /\ cb[p].dirty = FALSE
        OBVIOUS
      <2>1. ca[p] \in Entries
        OBVIOUS
      <2>2. cb[p] = [ca[p] EXCEPT !.inJournal = FALSE, !.dirty = FALSE, !.needSync = FALSE]
        OBVIOUS
      <2> HIDE DEF cb
      <2> QED BY <2>1, <2>2 DEF Entries
    <1>3. DOMAIN cb = DOMAIN ca /\ cb \in [DOMAIN ca -> Entries]
      BY <1>2
    <1>4. w = [pager EXCEPT !.state = "shared", !.dbSize = n, !.origDbSize = 0, !.cache = cb,
                            !.journal = <<>>, !.inJournal = {}, !.counted = 0,
                            !.started = FALSE, !.stmt = NoStmt]
      BY DEF Ended
    <1> HIDE DEF cb
    <1>5. NoStmt \in Statements /\ ~NoStmt.inUse
      <2>1. <<>> \in Seq(Records) /\ 0 \in 0..MostPages
        BY PageNumber
      <2> QED BY <2>1 DEF Statements, NoStmt
    <1>6. /\ w \in PagersWith(cb) /\ w.cache = cb
          /\ w.state = "shared" /\ w.dbSize = n /\ w.origDbSize = 0
          /\ w.journal = <<>> /\ w.inJournal = {} /\ w.stmt = NoStmt /\ w.counted = 0
      <2>1. <<>> \in Seq(Records) /\ 0 \in 0..MostPages /\ {} \in SUBSET PageNumbers
            /\ 0 \in Nat /\ FALSE \in BOOLEAN
        BY PageNumber
      <2> QED BY <2>1, <1>1, <1>4, <1>5 DEF PagersWith
    <1>a. w.counted <= Len(w.journal)
      BY <1>6
    <1>7. GoodPager(w) /\ 1 \in DOMAIN w.cache
      <2>1. w.origDbSize <= w.dbSize
        BY <1>6, PageNumber
      <2> QED BY <2>1, <1>3, <1>5, <1>6, <1>a DEF GoodPager
    <1>8. ASSUME NEW p \in PageNumbers
          PROVE  /\ ~View(f, w)[p].dirty /\ ~View(f, w)[p].inJournal
                 /\ p \in DOMAIN ca => View(f, w)[p].content = ca[p].content
                 /\ p \notin DOMAIN ca /\ ~(p > n) => View(f, w)[p].content = At(f, p)
      <2>1. View(f, w)[p] = EntryOf(f, w, p)
        BY DEF View
      <2>2. CASE p \in DOMAIN ca
        <3>1. EntryOf(f, w, p) = cb[p]
          BY <2>2, <1>3, <1>6 DEF EntryOf
        <3> QED BY <3>1, <2>1, <2>2, <1>2
      <2>3. CASE p \notin DOMAIN ca
        <3> DEFINE x == IF p > w.dbSize THEN Zeros ELSE At(f, p)
                   j == p \in w.inJournal
        <3>1. ~j
          BY <1>6
        <3>2. ~(p > n) => x = At(f, p)
          BY <1>6
        <3>3. p \notin DOMAIN w.cache
          BY <2>3, <1>3, <1>6
        <3> HIDE DEF x, j
        <3>4. EntryOf(f, w, p) = Entry(x, j)
          BY <3>3 DEF EntryOf, x, j
        <3>5. Entry(x, j).content = x /\ ~Entry(x, j).dirty /\ Entry(x, j).inJournal = j
          BY DEF Entry
        <3> QED BY <3>1, <3>2, <3>4, <3>5, <2>1, <2>3
      <2> QED BY <2>2, <2>3
    <1> QED BY <1>5, <1>6, <1>7, <1>8 DEF EndsAs

LEMMA EndKeeps ==
    ASSUME GoodPager(pager), NEW ca, ca \in [DOMAIN ca -> Entries], DOMAIN ca \subseteq PageNumbers,
           1 \in DOMAIN ca, NEW n \in PageNumbers, pager' = Ended(ca, n),
           GoodFile(dbFile'), Len(dbFile') = n,
           Book' \in Books, atBegin' \in Books, atStmt' \in Books,
           dropped' = {}, inStmt' = {}, early' = {}, calls' \in 0..MaxCalls, twice' = {},
           NEW c, RowsKept(c, Book'), IsList(c, Book', n),
           \A p \in Holding(Book') : /\ p <= n /\ At(dbFile', p) = c[p]
                                     /\ p \in DOMAIN ca => ca[p].content = c[p]
    PROVE  Kept'
    <1> DEFINE h == Holding(Book')
               e2 == View(dbFile', pager')
    <1>1. /\ GoodPager(pager') /\ 1 \in DOMAIN pager'.cache
          /\ pager'.state = "shared" /\ pager'.dbSize = n /\ pager'.journal = <<>>
          /\ pager'.inJournal = {} /\ ~pager'.stmt.inUse
          /\ \A p \in PageNumbers :
                /\ ~e2[p].dirty /\ ~e2[p].inJournal
                /\ p \in DOMAIN ca => e2[p].content = ca[p].content
                /\ p \notin DOMAIN ca /\ ~(p > n) => e2[p].content = At(dbFile', p)
      <2>1. PICK w, f : w = pager' /\ f = dbFile'
        OBVIOUS
      <2>2. EndsAs(f, ca, n, w)
        BY <2>1, EndedIs
      <2> QED BY <2>1, <2>2 DEF EndsAs
    <1>2. h \in SUBSET PageNumbers
      BY BookParts
    <1>3. HeldBy(pager)' = [p \in PageNumbers |-> e2[p].content]
      BY DEF HeldBy
    <1> HIDE DEF h, e2
    <1>4. \A p \in h : p \in PageNumbers /\ p <= n /\ ~(p > n) /\ At(dbFile', p) = c[p]
                       /\ e2[p].content = c[p]
      <2> SUFFICES ASSUME NEW p \in h
                   PROVE  p \in PageNumbers /\ p <= n /\ ~(p > n) /\ At(dbFile', p) = c[p]
                          /\ e2[p].content = c[p]
        OBVIOUS
      <2>1. p \in PageNumbers /\ p <= n /\ At(dbFile', p) = c[p]
            /\ (p \in DOMAIN ca => ca[p].content = c[p])
        BY <1>2 DEF h
      <2>2. ~(p > n)
        BY <2>1, PageNumber
      <2> QED BY <2>1, <2>2, <1>1
    <1>5. SameIn(c, HeldBy(pager)', h)
      BY <1>3, <1>4 DEF SameIn
    <1>6. RowsKept(HeldBy(pager)', Book') /\ IsList(HeldBy(pager)', Book', n)
      <2> DEFINE b == Book'
                 c2 == HeldBy(pager)'
      <2>1. b \in Books /\ SameIn(c, c2, Holding(b)) /\ IsList(c, b, n) /\ RowsKept(c, b)
        BY <1>5 DEF h
      <2> HIDE DEF b, c2
      <2> QED BY <2>1, ListSame DEF b, c2
    <1>7. NowKept(dbFile', pager', e2, h)
      BY <1>1, <1>4 DEF NowKept
    <1>8. BetweenTransactions'
      BY <1>1, <1>7 DEF BetweenTransactions, e2, h
    <1>9. Typed'
      BY <1>1 DEF Typed
    <1> QED BY <1>1, <1>6, <1>8, <1>9 DEF Kept

\* The transaction is committed: the file gets what is dirty.
LEMMA CommitTransKeeps ==
    ASSUME Kept, CommitTrans
    PROVE  Kept'
    <1> DEFINE h == Holding(Book)
               e == View(dbFile, pager)
               n == pager.dbSize
               ca == pager.cache
               dirty == {p \in DOMAIN ca : ca[p].dirty}
               last == CHOOSE m \in dirty \cup {Len(dbFile)} :
                          \A k \in dirty \cup {Len(dbFile)} : m >= k
               f2 == [p \in 1..last |-> IF p \in dirty THEN ca[p].content ELSE At(dbFile, p)]
    <1>0. PICK c : c = HeldBy(pager)
      OBVIOUS
    <1>1. /\ pager.state # "shared" /\ ~pager.stmt.inUse
          /\ pager' = Ended(ca, last) /\ dbFile' = f2
          /\ dropped' = {} /\ inStmt' = {} /\ early' = {} /\ Book' = Book
          /\ atStmt' = atStmt /\ atBegin' = atBegin /\ twice' = twice /\ calls' = calls
      BY DEF CommitTrans, Book, InTrans, InFile, At
    <1>2. /\ Typed /\ twice = {} /\ RowsKept(c, Book) /\ IsList(c, Book, pager.dbSize)
          /\ GoodFile(dbFile) /\ GoodPager(pager) /\ 1 \in DOMAIN pager.cache
          /\ Book \in Books /\ atBegin \in Books /\ atStmt \in Books
          /\ calls \in 0..MaxCalls
          /\ h \in SUBSET PageNumbers
      BY <1>0, <1>1, InStatement
    <1>3. Marks(pager, e) /\ Sizes(dbFile, pager, e) /\ NowKept(dbFile, pager, e, h)
      BY <1>1, InStatement DEF PagerGood
    <1>4. /\ n \in PageNumbers /\ n \in Nat /\ Len(dbFile) \in Nat /\ Len(dbFile) <= n
          /\ ca \in [DOMAIN ca -> Entries] /\ DOMAIN ca \subseteq PageNumbers /\ 1 \in DOMAIN ca
          /\ Len(dbFile) \in PageNumbers
      BY <1>2, <1>3, PagerFields, PageNumber DEF GoodPager, GoodFile, Sizes
    <1>5. /\ \A p \in DOMAIN ca : e[p] = ca[p]
          /\ \A p \in PageNumbers \ DOMAIN ca : ~e[p].dirty
      <2>1. \A p \in DOMAIN ca : e[p] = ca[p]
        BY <1>4 DEF View, EntryOf
      <2>2. \A p \in PageNumbers \ DOMAIN ca : ~e[p].dirty
        BY DEF View, EntryOf, Entry
      <2> QED BY <2>1, <2>2
    <1>6. \A p \in PageNumbers : p \in dirty <=> e[p].dirty
      BY <1>5
    <1>7. dirty \subseteq PageNumbers
      BY <1>4
    <1>8. last = n
      <2> DEFINE S == dirty \cup {Len(dbFile)}
      <2> HIDE DEF n, dirty, e, ca
      <2>1. \A m \in S : m \in Nat /\ m <= n
        <3> SUFFICES ASSUME NEW m \in dirty PROVE m \in Nat /\ m <= n
          BY <1>4
        <3>1. m \in PageNumbers /\ e[m].dirty
          BY <1>6, <1>7
        <3>2. ~(m > n)
          BY <3>1, <1>3 DEF Marks, n
        <3>3. m \in Nat
          BY <3>1, PageNumber
        <3> QED BY <3>2, <3>3, <1>4
      <2>2. n \in S
        <3>1. n <= Len(dbFile) \/ e[n].dirty
          BY <1>3 DEF Sizes, n
        <3>2. CASE e[n].dirty
          BY <3>2, <1>4, <1>6
        <3>3. CASE n <= Len(dbFile)
          <4>1. n = Len(dbFile)
            BY <3>3, <1>4
          <4> QED BY <4>1
        <3> QED BY <3>1, <3>2, <3>3
      <2>3. n \in S /\ \A k \in S : n >= k
        BY <2>1, <2>2, <1>4
      <2>4. last \in S /\ \A k \in S : last >= k
        BY <2>3
      <2> HIDE DEF S, last
      <2>5. last >= n /\ last \in Nat /\ last <= n
        BY <2>1, <2>2, <2>4
      <2> QED BY <2>5, <1>4
    <1> HIDE DEF last, dirty, e, n, h
    <1>9. \A p \in 1..n : p \in PageNumbers
      BY <1>4, PageNumber DEF PageNumbers
    <1>10. f2 \in [1..n -> AllContents]
      <2>1. \A p \in 1..n : (IF p \in dirty THEN ca[p].content ELSE At(dbFile, p)) \in AllContents
        <3> SUFFICES ASSUME NEW p \in 1..n
                     PROVE  (IF p \in dirty THEN ca[p].content ELSE At(dbFile, p)) \in AllContents
          OBVIOUS
        <3>1. At(dbFile, p) \in AllContents
          BY <1>2, <1>9, AtType
        <3>2. p \in dirty => ca[p].content \in AllContents
          BY <1>4 DEF dirty, Entries
        <3> QED BY <3>1, <3>2
      <2> QED BY <2>1, <1>8
    <1>11. \A p \in 1..n : f2[p] = IF p \in dirty THEN ca[p].content ELSE At(dbFile, p)
      BY <1>8
    <1> HIDE DEF f2
    <1>12. GoodFile(f2) /\ Len(f2) = n
      BY <1>4, <1>10, MakeFile
    <1>13. c = [p \in PageNumbers |-> e[p].content]
      BY <1>0 DEF HeldBy, e
    <1> HIDE DEF ca
    <1>14. ASSUME NEW p \in h
           PROVE  /\ p <= n /\ At(f2, p) = c[p]
                  /\ p \in DOMAIN ca => ca[p].content = c[p]
      <2>1. p <= n /\ (~e[p].dirty => At(dbFile, p) = e[p].content)
        BY <1>3 DEF NowKept, n
      <2>2. p \in PageNumbers /\ c[p] = e[p].content
        BY <1>2, <1>13
      <2>3. p \in 1..n
        BY <2>1, <2>2, <1>4, InRange
      <2>4. At(f2, p) = f2[p]
        BY <2>1, <1>12 DEF At
      <2>5. p \in DOMAIN ca => ca[p].content = c[p]
        BY <2>2, <1>5
      <2>6. p \in dirty => ca[p].content = c[p]
        BY <2>5 DEF dirty
      <2>7. p \notin dirty => At(dbFile, p) = c[p]
        BY <2>1, <2>2, <1>6
      <2> QED BY <2>1, <2>3, <2>4, <2>5, <2>6, <2>7, <1>11
    <1>15. /\ pager' = Ended(ca, n) /\ GoodFile(dbFile') /\ Len(dbFile') = n
           /\ RowsKept(c, Book') /\ IsList(c, Book', n)
           /\ \A p \in Holding(Book') : /\ p <= n /\ At(dbFile', p) = c[p]
                                        /\ p \in DOMAIN ca => ca[p].content = c[p]
      BY <1>1, <1>2, <1>8, <1>12, <1>14 DEF h, n
    <1>16. /\ Book' \in Books /\ atBegin' \in Books /\ atStmt' \in Books
           /\ dropped' = {} /\ inStmt' = {} /\ early' = {} /\ calls' \in 0..MaxCalls /\ twice' = {}
      BY <1>1, <1>2
    <1> QED BY <1>2, <1>4, <1>15, <1>16, EndKeeps

-----------------------------------------------------------------------------
\* What a journal says of a page that it has once,
LEMMA RecordIs ==
    ASSUME NEW recs, Once(recs), NEW p, NEW c, Has(recs, 0, p, c), Len(recs) \in Nat
    PROVE  p \in Recorded(recs) /\ RecordOf(recs, p) = c
    <1> DEFINE n == Len(recs)
               k == CHOOSE j \in 1..n : recs[j].page = p
    <1>1. PICK i \in 0 + 1..n : recs[i].page = p /\ recs[i].content = c
      BY DEF Has
    <1>2. i \in 1..n
      OBVIOUS
    <1>3. k \in 1..n /\ recs[k].page = p
      BY <1>1, <1>2
    <1>4. \A a, b \in 1..n : recs[a].page = recs[b].page => a = b
      BY DEF Once
    <1>5. RecordOf(recs, p) = recs[k].content
      BY DEF RecordOf
    <1> HIDE DEF n, k
    <1>6. k = i
      BY <1>1, <1>2, <1>3, <1>4
    <1> QED BY <1>1, <1>2, <1>5, <1>6 DEF Recorded, n

\* ... and of any page.
LEMMA RecordType ==
    ASSUME NEW recs \in Seq(Records), NEW p \in Recorded(recs)
    PROVE  RecordOf(recs, p) \in AllContents
    <1> DEFINE n == Len(recs)
               k == CHOOSE j \in 1..n : recs[j].page = p
    <1>1. k \in 1..n
      BY DEF Recorded
    <1>2. RecordOf(recs, p) = recs[k].content
      BY DEF RecordOf
    <1> HIDE DEF k
    <1>3. recs[k] \in Records
      BY <1>1, ElementOfSeq
    <1> QED BY <1>2, <1>3 DEF Records

\* A page of the cache is read again.
LEMMA ContentSet ==
    ASSUME NEW x \in Entries, NEW c \in AllContents
    PROVE  [x EXCEPT !.content = c] \in Entries /\ [x EXCEPT !.content = c].content = c
    BY DEF Entries

\* A part of a sequence.
LEMMA PartIs ==
    ASSUME NEW S, NEW b \in Seq(S), NEW k \in Nat, NEW m \in Nat, k <= m, m <= Len(b)
    PROVE  /\ SubSeq(b, k + 1, m) \in Seq(S) /\ Len(SubSeq(b, k + 1, m)) = m - k
           /\ \A i \in 1..m - k : SubSeq(b, k + 1, m)[i] = b[k + i]
    <1>1. Len(b) \in Nat
      BY LenProperties
    <1>2. \A i \in k + 1..m : b[i] \in S
      <2>1. \A i \in k + 1..m : i \in 1..Len(b)
        <3> DEFINE n == Len(b)
        <3>1. n \in Nat /\ m <= n
          BY <1>1
        <3> HIDE DEF n
        <3>2. \A i \in k + 1..m : i \in 1..n
          BY <3>1
        <3> QED BY <3>2 DEF n
      <2> QED BY <2>1, ElementOfSeq
    <1>3. /\ SubSeq(b, k + 1, m) \in Seq(S)
          /\ Len(SubSeq(b, k + 1, m)) = IF k + 1 <= m THEN (m - (k + 1)) + 1 ELSE 0
          /\ \A i \in 1..(m - (k + 1)) + 1 : SubSeq(b, k + 1, m)[i] = b[((k + 1) + i) - 1]
      <2>1. k + 1 \in 1..m + 1 /\ m \in k..Len(b) /\ k + 1 \in Int /\ m \in Int
        BY <1>1
      <2> QED BY <1>2, <2>1, <1>1, SubSeqProperties
    <1>4. (IF k + 1 <= m THEN (m - (k + 1)) + 1 ELSE 0) = m - k
      OBVIOUS
    <1>5. \A i \in 1..m - k : i \in 1..(m - (k + 1)) + 1 /\ ((k + 1) + i) - 1 = k + i
      OBVIOUS
    <1> QED BY <1>3, <1>4, <1>5

\* The records up to the k-th and those behind it.
CountedAre(J, k, P, Q) ==
    /\ P \in Seq(Records) /\ Len(P) \in Nat
    /\ Recorded(P) \subseteq Recorded(J)
    /\ Recorded(J) \subseteq Recorded(P) \cup Recorded(Q)
    /\ Recorded(Q) = RecordedFrom(J, k)
    /\ \A p, c : p \in Recorded(P) /\ Has(J, 0, p, c) => RecordOf(P, p) = c

LEMMA CountedRecords ==
    ASSUME NEW J \in Seq(Records), Once(J), NEW k \in Nat, k <= Len(J)
    PROVE  CountedAre(J, k, SubSeq(J, 1, k), SubSeq(J, k + 1, Len(J)))
    <1> DEFINE P == SubSeq(J, 1, k)
               Q == SubSeq(J, k + 1, Len(J))
               m == Len(J)
    <1>1. m \in Nat /\ k <= m
      BY LenProperties
    <1>2. P \in Seq(Records) /\ Len(P) = k /\ \A i \in 1..k : P[i] = J[i]
      <2>1. 0 \in Nat /\ 0 <= k
        OBVIOUS
      <2>2. /\ SubSeq(J, 0 + 1, k) \in Seq(Records) /\ Len(SubSeq(J, 0 + 1, k)) = k - 0
            /\ \A i \in 1..k - 0 : SubSeq(J, 0 + 1, k)[i] = J[0 + i]
        BY <2>1, PartIs
      <2>3. 0 + 1 = 1 /\ k - 0 = k /\ \A i \in 1..k : 0 + i = i
        OBVIOUS
      <2> QED BY <2>2, <2>3
    <1>3. Q \in Seq(Records) /\ Len(Q) = m - k /\ \A i \in 1..m - k : Q[i] = J[k + i]
      <2>1. m <= Len(J)
        BY <1>1
      <2> QED BY <2>1, <1>1, PartIs
    <1> HIDE DEF P, Q
    <1>4. \A i \in 1..k : i \in 1..m
      <2> HIDE DEF m
      <2> QED BY <1>1
    <1>5. Recorded(P) = {J[i].page : i \in 1..k}
      BY <1>2 DEF Recorded
    <1>6. Recorded(Q) = {J[i].page : i \in k + 1..m}
      <2>1. Recorded(Q) = {Q[i].page : i \in 1..m - k}
        BY <1>3 DEF Recorded
      <2> HIDE DEF m
      <2>2. \A i \in 1..m - k : k + i \in k + 1..m
        BY <1>1
      <2>3. \A j \in k + 1..m : j - k \in 1..m - k /\ k + (j - k) = j
        BY <1>1
      <2>4. \A j \in k + 1..m : Q[j - k] = J[j]
        BY <2>3, <1>3
      <2> QED BY <2>1, <2>2, <2>3, <2>4, <1>3
    <1>7. Recorded(J) = {J[i].page : i \in 1..m}
      BY DEF Recorded
    <1>8. Recorded(J) \subseteq Recorded(P) \cup Recorded(Q)
      <2> HIDE DEF m
      <2>1. \A i \in 1..m : i \in 1..k \/ i \in k + 1..m
        BY <1>1
      <2> QED BY <2>1, <1>5, <1>6, <1>7
    <1>9. Recorded(P) \subseteq Recorded(J)
      BY <1>4, <1>5, <1>7
    <1>10. Recorded(Q) = RecordedFrom(J, k)
      BY <1>6 DEF RecordedFrom
    <1>11. ASSUME NEW p, NEW c, p \in Recorded(P), Has(J, 0, p, c)
           PROVE  RecordOf(P, p) = c
      <2>1. PICK i \in 0 + 1..m : J[i].page = p /\ J[i].content = c
        BY <1>11 DEF Has
      <2>2. i \in 1..m
        OBVIOUS
      <2> DEFINE j == CHOOSE a \in 1..Len(P) : P[a].page = p
      <2>3. j \in 1..Len(P) /\ P[j].page = p
        BY <1>11 DEF Recorded
      <2>4. RecordOf(P, p) = P[j].content
        BY DEF RecordOf
      <2> HIDE DEF j
      <2>5. P[j] = J[j] /\ j \in 1..m
        BY <2>3, <1>2, <1>4
      <2>6. j = i
        BY <2>1, <2>2, <2>3, <2>5 DEF Once
      <2> QED BY <2>1, <2>4, <2>5, <2>6
    <1>12. Len(P) \in Nat
      BY <1>2
    <1>13. CountedAre(J, k, P, Q)
      BY <1>2, <1>8, <1>9, <1>10, <1>11, <1>12 DEF CountedAre
    <1> QED BY <1>13 DEF P, Q

\* The transaction is rolled back.
LEMMA RollbackTransKeeps ==
    ASSUME Kept, RollbackTrans, forgotten = {}, forgotten' = {}
    PROVE  Kept'
    <1> DEFINE hb == Holding(atBegin)
               e == View(dbFile, pager)
               n == pager.origDbSize
               J == pager.journal
               R == Playable(pager)
               U == Uncounted(pager)
               ca == pager.cache
               back == pager.state = "exclusive"
               f2 == [p \in 1..n |-> IF back /\ p \in Recorded(R) THEN RecordOf(R, p)
                                     ELSE At(dbFile, p)]
               re(p) == IF p <= n THEN f2[p] ELSE Zeros
               read(p) == IF back THEN p \in Recorded(R) ELSE ca[p].dirty
               lost(cursor) == IF back THEN StaysChanged(cursor)
                               ELSE IF cursor THEN dropped \cap DOMAIN ca ELSE {}
               kept(cursor) == IF cursor
                               THEN [p \in DOMAIN ca |-> IF read(p)
                                                         THEN [ca[p] EXCEPT !.content = re(p)]
                                                         ELSE ca[p]]
                               ELSE [p \in {1} |-> Entry(f2[1], FALSE)]
    <1>1. PICK cursor \in BOOLEAN :
             /\ dbFile' = f2
             /\ pager' = Ended(kept(cursor), n)
             /\ forgotten' = IF lost(cursor) \cap hb = {} THEN forgotten
                             ELSE forgotten \cup {IF back THEN "not counted" ELSE "cache stale"}
      BY Zenon DEF RollbackTrans, InFile, At
    <1>2. /\ pager.state # "shared" /\ used' = atBegin.used /\ trunks' = atBegin.trunks
          /\ dropped' = {} /\ inStmt' = {} /\ early' = {}
          /\ atBegin' = atBegin /\ atStmt' = atStmt
          /\ twice' = twice /\ calls' = calls
      BY DEF RollbackTrans, InTrans
    <1>3. /\ back => U \cap early \cap hb = {}
          /\ back /\ cursor => U \cap DOMAIN ca \cap hb = {}
          /\ ~back /\ cursor => dropped \cap DOMAIN ca \cap hb = {}
      <2>1. lost(cursor) \cap hb = {}
        BY <1>1
      <2>2. StaysChanged(cursor) = U \cap (early \cup IF cursor THEN DOMAIN ca ELSE {})
        BY DEF StaysChanged
      <2> HIDE DEF U, ca, hb
      <2> QED BY <2>1, <2>2
    <1>4. /\ twice = {} /\ GoodFile(dbFile) /\ GoodPager(pager) /\ 1 \in DOMAIN ca
          /\ atBegin \in Books /\ atStmt \in Books /\ calls \in 0..MaxCalls
          /\ hb \in SUBSET PageNumbers /\ 1 \in hb
      BY <1>2, InStatement
    <1>5. PICK old, mid : /\ Remembered(old, mid)
                          /\ PagerGood(dbFile, pager, e, Holding(Book), hb, Holding(atStmt),
                                       old, mid, dropped, inStmt, early)
      BY <1>2, InStatement
    <1>6. /\ Marks(pager, e) /\ TransKept(dbFile, pager, e, hb, old, dropped)
          /\ WaitKept(dbFile, pager, e, hb, old, early)
      BY <1>5 DEF PagerGood
    <1>7. RowsKept(old, atBegin) /\ IsList(old, atBegin, n)
      BY <1>5 DEF Remembered
    <1>8. /\ n \in Nat /\ n <= MostPages /\ J \in Seq(Records) /\ Len(J) \in Nat
          /\ ca \in [DOMAIN ca -> Entries] /\ DOMAIN ca \subseteq PageNumbers
          /\ pager.state \in {"shared", "reserved", "exclusive"}
          /\ pager.counted \in Nat /\ pager.counted <= Len(J)
      BY <1>4, PagerFields DEF GoodPager
    <1>9. n \in PageNumbers
      <2>1. 1 <= n
        BY <1>4, <1>6 DEF TransKept
      <2> HIDE DEF n
      <2> QED BY <2>1, <1>8, PageNumber DEF PageNumbers
    <1>10. ~back => pager.state = "reserved"
      BY <1>2, <1>8
    <1>11. \A p \in DOMAIN ca : e[p] = ca[p]
      BY <1>8 DEF View, EntryOf
    <1>12. /\ \A p \in PageNumbers : p \in Recorded(J) => p \in pager.inJournal
           /\ Once(J)
      BY <1>6 DEF Marks
    <1>a. /\ R \in Seq(Records) /\ Recorded(R) \subseteq Recorded(J)
          /\ Recorded(J) \subseteq Recorded(R) \cup U
          /\ U = RecordedFrom(J, pager.counted)
          /\ \A p, c : p \in Recorded(R) /\ Has(J, 0, p, c) => RecordOf(R, p) = c
      <2> DEFINE k == pager.counted
      <2>1. R = SubSeq(J, 1, k) /\ U = Recorded(SubSeq(J, k + 1, Len(J)))
        BY DEF Playable, Uncounted
      <2> HIDE DEF R, U, J, k
      <2>2. CountedAre(J, k, SubSeq(J, 1, k), SubSeq(J, k + 1, Len(J)))
        BY <1>8, <1>12, CountedRecords DEF k
      <2> QED BY <2>1, <2>2 DEF CountedAre, k
    <1>13. \A p \in 1..n : p \in PageNumbers
      <2> HIDE DEF n
      <2> QED BY <1>8, PageNumber DEF PageNumbers
    <1>14. Book' = atBegin
      BY <1>2, <1>4 DEF Book, Books
    <1> HIDE DEF hb, e, n, J, R, U, ca, back
    <1>15. \A p \in 1..n : f2[p] = IF back /\ p \in Recorded(R) THEN RecordOf(R, p)
                                   ELSE At(dbFile, p)
      OBVIOUS
    <1>16. f2 \in [1..n -> AllContents]
      <2>1. \A p \in 1..n : (IF back /\ p \in Recorded(R) THEN RecordOf(R, p)
                             ELSE At(dbFile, p)) \in AllContents
        <3> SUFFICES ASSUME NEW p \in 1..n
                     PROVE  (IF back /\ p \in Recorded(R) THEN RecordOf(R, p)
                             ELSE At(dbFile, p)) \in AllContents
          OBVIOUS
        <3>1. At(dbFile, p) \in AllContents
          BY <1>4, <1>13, AtType
        <3>2. p \in Recorded(R) => RecordOf(R, p) \in AllContents
          BY <1>a, RecordType
        <3> QED BY <3>1, <3>2
      <2> QED BY <2>1
    <1> HIDE DEF f2
    <1>17. GoodFile(f2) /\ Len(f2) = n
      BY <1>9, <1>16, MakeFile
    <1>18. \A p \in PageNumbers : re(p) \in AllContents
      <2> SUFFICES ASSUME NEW p \in PageNumbers
                   PROVE  re(p) \in AllContents
        OBVIOUS
      <2>1. p <= n => f2[p] \in AllContents
        BY <1>8, <1>16, InRange
      <2> QED BY <2>1, ContentsType
    <1>19. ASSUME NEW p \in hb
           PROVE  /\ p \in PageNumbers /\ p \in 1..n /\ p <= n
                  /\ f2[p] = old[p] /\ At(f2, p) = old[p] /\ re(p) = old[p]
      <2>1. p \in PageNumbers /\ p <= n /\ p \in 1..n
        BY <1>4, <1>6, <1>8, InRange DEF TransKept, n
      <2>2. /\ ~back => At(dbFile, p) = old[p]
            /\ p \in pager.inJournal => Has(J, 0, p, old[p])
            /\ p \notin pager.inJournal => At(dbFile, p) = old[p]
        BY <1>6, <1>10 DEF TransKept, J
      <2>3. p \in pager.inJournal => p \in Recorded(J)
        BY <2>2, <1>8, <1>12, RecordIs
      <2>4. p \in Recorded(R) => RecordOf(R, p) = old[p]
        BY <2>1, <2>2, <1>12, <1>a
      <2>5. back /\ p \in Recorded(J) /\ p \notin Recorded(R) => At(dbFile, p) = old[p]
        <3> SUFFICES ASSUME back, p \in Recorded(J), p \notin Recorded(R)
                     PROVE  At(dbFile, p) = old[p]
          OBVIOUS
        <3>1. p \in U /\ p \notin early
          BY <1>3, <1>a
        <3> QED BY <3>1, <1>6, <1>a DEF WaitKept, J
      <2>6. f2[p] = old[p]
        BY <2>1, <2>2, <2>3, <2>4, <2>5, <1>15
      <2>7. At(f2, p) = f2[p]
        BY <2>1, <1>17 DEF At
      <2> QED BY <2>1, <2>6, <2>7
    <1> HIDE DEF re
    <1> DEFINE k2 == kept(cursor)
               kIs == /\ k2 \in [DOMAIN k2 -> Entries] /\ DOMAIN k2 \subseteq PageNumbers
                      /\ 1 \in DOMAIN k2
                      /\ \A p \in hb : p \in DOMAIN k2 => k2[p].content = old[p]
    <1>20. 1 \in DOMAIN ca /\ DOMAIN ca \subseteq PageNumbers /\ 1 \in PageNumbers
      BY <1>4, <1>8
    <1>21. ASSUME cursor PROVE kIs
      <2>1. k2 = [p \in DOMAIN ca |-> IF read(p) THEN [ca[p] EXCEPT !.content = re(p)] ELSE ca[p]]
        BY <1>21
      <2>2. ASSUME NEW p \in DOMAIN ca
            PROVE  /\ k2[p] \in Entries
                   /\ k2[p].content = IF read(p) THEN re(p) ELSE ca[p].content
        <3>1. ca[p] \in Entries /\ re(p) \in AllContents
          BY <1>8, <1>18, <1>20
        <3>2. k2[p] = IF read(p) THEN [ca[p] EXCEPT !.content = re(p)] ELSE ca[p]
          BY <2>1
        <3> HIDE DEF k2, read
        <3> QED BY <3>1, <3>2, ContentSet
      <2>3. DOMAIN k2 = DOMAIN ca
        BY <2>1
      <2> HIDE DEF k2
      <2>4. /\ k2 \in [DOMAIN k2 -> Entries] /\ DOMAIN k2 \subseteq PageNumbers
            /\ 1 \in DOMAIN k2
        <3>1. k2 = [p \in DOMAIN ca |-> k2[p]]
          BY <2>1
        <3> QED BY <3>1, <2>2, <2>3, <1>20
      <2>5. ASSUME NEW p \in hb, p \in DOMAIN k2
            PROVE  k2[p].content = old[p]
        <3>1. re(p) = old[p] /\ p \in PageNumbers /\ p \in DOMAIN ca
          BY <1>19, <2>3, <2>5
        <3>2. p \notin pager.inJournal => e[p].content = old[p]
          BY <1>6 DEF TransKept
        <3>3. back /\ p \in pager.inJournal => p \in Recorded(R)
          <4>1. p \in pager.inJournal => Has(J, 0, p, old[p])
            BY <1>6 DEF TransKept, J
          <4>2. p \in pager.inJournal => p \in Recorded(J)
            BY <4>1, <1>8, <1>12, RecordIs
          <4>3. back => p \notin U
            BY <3>1, <1>3, <1>21
          <4> QED BY <4>2, <4>3, <1>a
        <3>4. ~back /\ p \in pager.inJournal => e[p].dirty
          <4>1. ~back /\ p \in pager.inJournal => e[p].dirty \/ p \in dropped
            BY <1>6, <1>10 DEF TransKept
          <4> QED BY <4>1, <3>1, <1>3, <1>21
        <3>5. e[p] = ca[p]
          BY <1>11, <3>1
        <3>6. k2[p].content = IF read(p) THEN re(p) ELSE ca[p].content
          BY <2>2, <3>1
        <3>7. ~read(p) => p \notin pager.inJournal
          BY <3>3, <3>4, <3>5
        <3> HIDE DEF read
        <3> QED BY <3>1, <3>2, <3>5, <3>6, <3>7
      <2> QED BY <2>4, <2>5
    <1>22. ASSUME ~cursor PROVE kIs
      <2>1. k2 = [p \in {1} |-> Entry(f2[1], FALSE)]
        BY <1>22
      <2>2. f2[1] = old[1] /\ f2[1] \in AllContents
        BY <1>4, <1>16, <1>19
      <2>3. Entry(f2[1], FALSE) \in Entries /\ Entry(f2[1], FALSE).content = f2[1]
        BY <2>2 DEF Entry, Entries
      <2>4. DOMAIN k2 = {1} /\ k2[1] = Entry(f2[1], FALSE)
        BY <2>1
      <2>5. k2 \in [{1} -> Entries]
        BY <2>1, <2>3
      <2> HIDE DEF k2
      <2> QED BY <2>2, <2>3, <2>4, <2>5, <1>20
    <1>23. kIs
      <2> HIDE DEF kIs
      <2> QED BY <1>21, <1>22
    <1>24. pager' = Ended(k2, n)
      BY <1>1 DEF re, n, ca, back, f2, J, R
    <1> HIDE DEF k2
    <1>25. \A p \in Holding(Book') : /\ p <= n /\ At(dbFile', p) = old[p]
                                     /\ p \in DOMAIN k2 => k2[p].content = old[p]
      BY <1>1, <1>14, <1>19, <1>23 DEF hb, f2, R, back, n
    <1>26. /\ GoodFile(dbFile') /\ Len(dbFile') = n
           /\ RowsKept(old, Book') /\ IsList(old, Book', n)
           /\ Book' \in Books /\ atBegin' \in Books /\ atStmt' \in Books
           /\ calls' \in 0..MaxCalls /\ twice' = {}
      BY <1>1, <1>2, <1>4, <1>7, <1>14, <1>17 DEF n, f2, R, back
    <1> QED BY <1>2, <1>4, <1>9, <1>23, <1>24, <1>25, <1>26, EndKeeps

-----------------------------------------------------------------------------
\* What the statement has saved and what the journal got since it began,
\* together.
Saved(g) == g.stmt.saved \o SubSeq(g.journal, g.stmt.skip + 1, Len(g.journal))

Joined(S, a, b, k, r) ==
    /\ r \in Seq(S) /\ Len(r) \in Nat /\ Len(a) \in Nat
    /\ \A i \in 1..Len(a) : i \in 1..Len(r) /\ r[i] = a[i]
    /\ \A j \in k + 1..Len(b) : /\ Len(a) + (j - k) \in 1..Len(r)
                                /\ r[Len(a) + (j - k)] = b[j]
    /\ \A i \in 1..Len(r) : \/ i \in 1..Len(a)
                            \/ \E j \in k + 1..Len(b) : i = Len(a) + (j - k)

LEMMA JoinedRecords ==
    ASSUME NEW S, NEW a \in Seq(S), NEW b \in Seq(S), NEW k \in Nat, k <= Len(b),
           NEW r, r = a \o SubSeq(b, k + 1, Len(b))
    PROVE  Joined(S, a, b, k, r)
    <1> DEFINE n == Len(a)
               m == Len(b)
               t == SubSeq(b, k + 1, m)
    <1>1. n \in Nat /\ m \in Nat /\ k <= m
      BY LenProperties
    <1>2. t \in Seq(S) /\ Len(t) = m - k /\ \A i \in 1..m - k : t[i] = b[k + i]
      <2>1. m <= Len(b)
        BY <1>1
      <2> QED BY <2>1, <1>1, PartIs
    <1> HIDE DEF t
    <1>3. /\ r \in Seq(S) /\ Len(r) = n + Len(t)
          /\ \A i \in 1..n + Len(t) : r[i] = IF i <= n THEN a[i] ELSE t[i - n]
      BY <1>2, ConcatProperties DEF t
    <1> HIDE DEF n, m
    <1>4. Len(r) = n + (m - k) /\ Len(r) \in Nat
      BY <1>1, <1>2, <1>3
    <1>5. ASSUME NEW i \in 1..n
          PROVE  i \in 1..Len(r) /\ r[i] = a[i]
      <2>1. i \in 1..Len(r) /\ i <= n
        BY <1>1, <1>4
      <2> QED BY <2>1, <1>2, <1>3, <1>4
    <1>6. ASSUME NEW j \in k + 1..m
          PROVE  n + (j - k) \in 1..Len(r) /\ r[n + (j - k)] = b[j]
      <2> DEFINE l == j - k
                 i == n + (j - k)
      <2>1. /\ l \in 1..m - k /\ k + l = j
            /\ i \in 1..Len(r) /\ ~(i <= n) /\ i - n = l
        BY <1>1, <1>4
      <2> HIDE DEF l, i
      <2>2. r[i] = t[l]
        BY <2>1, <1>2, <1>3, <1>4
      <2>3. t[l] = b[j]
        BY <2>1, <1>2
      <2> QED BY <2>1, <2>2, <2>3 DEF i
    <1>7. ASSUME NEW i \in 1..Len(r), i \notin 1..n
          PROVE  \E j \in k + 1..m : i = n + (j - k)
      <2> DEFINE j == k + (i - n)
      <2>1. j \in k + 1..m /\ i = n + (j - k)
        BY <1>1, <1>4, <1>7
      <2> QED BY <2>1
    <1> QED BY <1>1, <1>3, <1>4, <1>5, <1>6, <1>7 DEF n, m, Joined

LEMMA SavedIs ==
    ASSUME NEW g, GoodPager(g), g.stmt.inUse, StmtMarks(g), Once(g.journal)
    PROVE  /\ Saved(g) \in Seq(Records) /\ Len(Saved(g)) \in Nat
           /\ Recorded(Saved(g)) = InStmt(g) /\ Once(Saved(g))
           /\ \A p, c : Has(g.stmt.saved, 0, p, c) \/ Has(g.journal, g.stmt.skip, p, c)
                        => Has(Saved(g), 0, p, c)
    <1> DEFINE a == g.stmt.saved
               b == g.journal
               k == g.stmt.skip
               r == Saved(g)
    <1>1. a \in Seq(Records) /\ b \in Seq(Records) /\ k \in Nat /\ k <= Len(b)
      BY PagerFields DEF GoodPager
    <1>2. /\ Once(a) /\ Once(b) /\ Recorded(a) \cap RecordedFrom(b, k) = {}
          /\ InStmt(g) = Recorded(a) \cup RecordedFrom(b, k)
      BY DEF StmtMarks, InStmt
    <1>3. r = a \o SubSeq(b, k + 1, Len(b))
      BY DEF Saved
    <1> HIDE DEF a, b, k, r
    <1>j. Joined(Records, a, b, k, r)
      BY <1>1, <1>3, JoinedRecords
    <1>4. /\ r \in Seq(Records) /\ Len(r) \in Nat /\ Len(a) \in Nat
          /\ \A i \in 1..Len(a) : i \in 1..Len(r) /\ r[i] = a[i]
          /\ \A j \in k + 1..Len(b) : /\ Len(a) + (j - k) \in 1..Len(r)
                                      /\ r[Len(a) + (j - k)] = b[j]
          /\ \A i \in 1..Len(r) : \/ i \in 1..Len(a)
                                  \/ \E j \in k + 1..Len(b) : i = Len(a) + (j - k)
      BY <1>j DEF Joined
    <1>5. \A j \in k + 1..Len(b) : j \in 1..Len(b)
      <2>1. Len(b) \in Nat
        BY <1>1, LenProperties
      <2> QED BY <2>1, <1>1
    <1> DEFINE n == Len(a)
               m == Len(b)
               l == Len(r)
               pos(j) == n + (j - k)
    <1>6. /\ \A i \in 1..n : i \in 1..l /\ r[i] = a[i]
          /\ \A j \in k + 1..m : pos(j) \in 1..l /\ r[pos(j)] = b[j]
          /\ \A i \in 1..l : i \in 1..n \/ \E j \in k + 1..m : i = pos(j)
      BY <1>4
    <1> HIDE DEF n, m, l, pos
    <1>7. Recorded(r) = Recorded(a) \cup RecordedFrom(b, k)
      <2>1. /\ Recorded(r) = {r[i].page : i \in 1..l} /\ Recorded(a) = {a[i].page : i \in 1..n}
            /\ RecordedFrom(b, k) = {b[j].page : j \in k + 1..m}
        BY DEF Recorded, RecordedFrom, n, m, l
      <2> QED BY <2>1, <1>6
    <1>8. Once(r)
      <2>1. /\ \A i, j \in 1..n : a[i].page = a[j].page => i = j
            /\ \A i, j \in k + 1..m : b[i].page = b[j].page => i = j
            /\ \A i \in 1..n, j \in k + 1..m : a[i].page # b[j].page
        <3>1. \A i, j \in 1..n : a[i].page = a[j].page => i = j
          BY <1>2 DEF Once, n
        <3>2. \A i, j \in 1..m : b[i].page = b[j].page => i = j
          BY <1>2 DEF Once, m
        <3>3. \A i \in k + 1..m : i \in 1..m
          BY <1>5 DEF m
        <3>4. \A i \in 1..n : a[i].page \in Recorded(a)
          BY DEF Recorded, n
        <3>5. \A j \in k + 1..m : b[j].page \in RecordedFrom(b, k)
          BY DEF RecordedFrom, m
        <3> QED BY <3>1, <3>2, <3>3, <3>4, <3>5, <1>2
      <2>2. \A i, j \in 1..l : r[i].page = r[j].page => i = j
        <3> SUFFICES ASSUME NEW i \in 1..l, NEW j \in 1..l, r[i].page = r[j].page
                     PROVE  i = j
          OBVIOUS
        <3>1. CASE i \in 1..n /\ j \in 1..n
          BY <3>1, <2>1, <1>6
        <3>2. CASE i \in 1..n /\ j \notin 1..n
          BY <3>2, <2>1, <1>6
        <3>3. CASE i \notin 1..n /\ j \in 1..n
          BY <3>3, <2>1, <1>6
        <3>4. CASE i \notin 1..n /\ j \notin 1..n
          BY <3>4, <2>1, <1>6
        <3> QED BY <3>1, <3>2, <3>3, <3>4
      <2> QED BY <2>2 DEF Once, l
    <1>9. ASSUME NEW p, NEW c, Has(a, 0, p, c) \/ Has(b, k, p, c)
          PROVE  Has(r, 0, p, c)
      <2>1. \E i \in 1..l : r[i].page = p /\ r[i].content = c
        <3>1. CASE Has(a, 0, p, c)
          <4>1. PICK i \in 1..n : a[i].page = p /\ a[i].content = c
            BY <3>1 DEF Has, n
          <4> QED BY <4>1, <1>6
        <3>2. CASE Has(b, k, p, c)
          <4>1. PICK j \in k + 1..m : b[j].page = p /\ b[j].content = c
            BY <3>2 DEF Has, m
          <4>2. pos(j) \in 1..l /\ r[pos(j)] = b[j]
            BY <1>6
          <4> QED BY <4>1, <4>2
        <3> QED BY <1>9, <3>1, <3>2
      <2>2. PICK i \in 1..l : r[i].page = p /\ r[i].content = c
        BY <2>1
      <2>3. i \in 0 + 1..Len(r)
        BY DEF l
      <2> QED BY <2>2, <2>3 DEF Has
    <1> QED BY <1>2, <1>4, <1>7, <1>8, <1>9 DEF a, b, k, r

-----------------------------------------------------------------------------
\* The statement is rolled back: in the file and in the cache.
Undoes(f, g, f2, w) ==
    /\ f2 = [p \in 1..g.stmt.size |->
                IF g.state = "exclusive" /\ p \in Recorded(Saved(g))
                THEN RecordOf(Saved(g), p) ELSE At(f, p)]
    /\ w = [g EXCEPT !.stmt = NoStmt, !.dbSize = g.stmt.size,
                     !.cache = [p \in DOMAIN g.cache |->
                        IF p \in Recorded(Saved(g))
                        THEN [g.cache[p] EXCEPT
                                 !.content = RecordOf(Saved(g), p),
                                 !.dirty = ~(g.state = "exclusive") /\ g.cache[p].dirty,
                                 !.needSync = ~(g.state = "exclusive") /\ g.cache[p].needSync]
                        ELSE g.cache[p]]]
UndonePager(f, g, f2, w) ==
    /\ w.state = g.state /\ w.dbSize = g.stmt.size /\ w.origDbSize = g.origDbSize
    /\ w.journal = g.journal /\ w.inJournal = g.inJournal
    /\ w.alwaysRollback = g.alwaysRollback /\ ~w.stmt.inUse
    /\ w.counted = g.counted /\ Len(f2) = g.stmt.size
UndonePage(f, g, f2, p, x, x2) ==
    /\ p <= g.stmt.size
       => At(f2, p) = IF g.state = "exclusive" /\ p \in Recorded(Saved(g))
                      THEN RecordOf(Saved(g), p) ELSE At(f, p)
    /\ x2.inJournal = x.inJournal /\ x2.alwaysRollback = x.alwaysRollback
    /\ x2.dirty <=> x.dirty /\ ~(g.state = "exclusive" /\ p \in Recorded(Saved(g)))
    /\ x2.needSync <=> x.needSync /\ ~(g.state = "exclusive" /\ p \in Recorded(Saved(g)))
    /\ p \in DOMAIN g.cache
       => x2.content = IF p \in Recorded(Saved(g)) THEN RecordOf(Saved(g), p) ELSE x.content
    /\ p \notin DOMAIN g.cache => /\ ~x.dirty /\ (x2.inJournal <=> p \in g.inJournal)
                                  /\ p <= g.stmt.size => x2.content = At(f2, p)

ReadBack(x, c, d, s) == [x EXCEPT !.content = c, !.dirty = d, !.needSync = s]
ReadIs(x, c, d, s, y) ==
    /\ y \in Entries
    /\ y.content = c /\ y.dirty = d /\ y.needSync = s
    /\ y.inJournal = x.inJournal /\ y.alwaysRollback = x.alwaysRollback
LEMMA RecordSet ==
    ASSUME NEW x \in Entries, NEW c \in AllContents, NEW d \in BOOLEAN, NEW s \in BOOLEAN
    PROVE  ReadIs(x, c, d, s, ReadBack(x, c, d, s))
    BY DEF Entries, ReadBack, ReadIs

LEMMA UndoEffect ==
    ASSUME NEW f, GoodFile(f), NEW g, GoodPager(g), 1 \in DOMAIN g.cache,
           g.stmt.inUse, StmtMarks(g), Once(g.journal), g.stmt.size \in PageNumbers,
           NEW f2, NEW w, Undoes(f, g, f2, w)
    PROVE  /\ GoodFile(f2) /\ GoodPager(w) /\ 1 \in DOMAIN w.cache
           /\ UndonePager(f, g, f2, w)
           /\ \A p \in PageNumbers : UndonePage(f, g, f2, p, View(f, g)[p], View(f2, w)[p])
    <1> DEFINE R == Saved(g)
               back == g.state = "exclusive"
               n == g.stmt.size
               new(p) == IF p \in Recorded(R)
                         THEN [g.cache[p] EXCEPT !.content = RecordOf(R, p),
                                                 !.dirty = ~back /\ g.cache[p].dirty,
                                                 !.needSync = ~back /\ g.cache[p].needSync]
                         ELSE g.cache[p]
               ca == [p \in DOMAIN g.cache |-> new(p)]
    <1>1. /\ g \in PagersWith(g.cache) /\ g.cache \in [DOMAIN g.cache -> Entries]
          /\ DOMAIN g.cache \subseteq PageNumbers
          /\ g.inJournal \subseteq 1..g.origDbSize /\ g.origDbSize <= n
          /\ g.counted <= Len(g.journal)
      BY DEF GoodPager
    <1>2. R \in Seq(Records) /\ \A p \in Recorded(R) : RecordOf(R, p) \in AllContents
      <2>1. R \in Seq(Records)
        BY SavedIs
      <2> QED BY <2>1, RecordType
    <1>3. Len(f) \in PageNumbers /\ Len(f) \in Nat /\ n \in PageNumbers /\ n \in Nat
      BY PageNumber DEF GoodFile
    <1>5. f2 = [p \in 1..n |-> IF back /\ p \in Recorded(R) THEN RecordOf(R, p) ELSE At(f, p)]
      BY DEF Undoes
    <1>6. w = [g EXCEPT !.stmt = NoStmt, !.dbSize = n, !.cache = ca]
      BY DEF Undoes
    <1>b. back \in BOOLEAN
      OBVIOUS
    <1> HIDE DEF R
    <1>7. GoodFile(f2) /\ Len(f2) = n
      <2> HIDE DEF n
      <2>1. \A p \in 1..n : p \in PageNumbers
        BY <1>3, PageNumber DEF PageNumbers
      <2>2. \A p \in 1..n : (IF back /\ p \in Recorded(R) THEN RecordOf(R, p) ELSE At(f, p))
                                \in AllContents
        BY <2>1, <1>2, AtType
      <2>3. f2 \in [1..n -> AllContents]
        BY <2>2, <1>5
      <2> QED BY <2>3, <1>3, MakeFile
    <1>8. ASSUME NEW p \in PageNumbers, p <= n
          PROVE  At(f2, p) = IF back /\ p \in Recorded(R) THEN RecordOf(R, p) ELSE At(f, p)
      <2> HIDE DEF n
      <2>1. p \in 1..n
        BY <1>3, <1>8, InRange
      <2>2. f2[p] = IF back /\ p \in Recorded(R) THEN RecordOf(R, p) ELSE At(f, p)
        BY <2>1, <1>5
      <2> QED BY <2>2, <1>7, <1>8 DEF At
    <1>9. ASSUME NEW p \in DOMAIN g.cache
          PROVE  /\ new(p) \in Entries
                 /\ new(p).inJournal = g.cache[p].inJournal
                 /\ new(p).alwaysRollback = g.cache[p].alwaysRollback
                 /\ new(p).dirty <=> g.cache[p].dirty /\ ~(back /\ p \in Recorded(R))
                 /\ new(p).needSync <=> g.cache[p].needSync /\ ~(back /\ p \in Recorded(R))
                 /\ new(p).content = IF p \in Recorded(R) THEN RecordOf(R, p)
                                     ELSE g.cache[p].content
      <2> DEFINE x == g.cache[p]
                 d == ~back /\ x.dirty
                 s == ~back /\ x.needSync
      <2>1. x \in Entries /\ x.dirty \in BOOLEAN /\ x.needSync \in BOOLEAN
        BY <1>1 DEF Entries
      <2>2. d \in BOOLEAN /\ s \in BOOLEAN
            /\ (p \in Recorded(R) => RecordOf(R, p) \in AllContents)
        BY <2>1, <1>2
      <2>3. p \in Recorded(R)
            => new(p) = [x EXCEPT !.content = RecordOf(R, p), !.dirty = d, !.needSync = s]
        OBVIOUS
      <2>4. p \notin Recorded(R) => new(p) = x
        OBVIOUS
      <2>5. (d <=> x.dirty /\ ~back) /\ (s <=> x.needSync /\ ~back)
        OBVIOUS
      <2> DEFINE y == new(p)
      <2> HIDE DEF x, d, s, y, back
      <2>6. CASE p \in Recorded(R)
        <3>1. y = [x EXCEPT !.content = RecordOf(R, p), !.dirty = d, !.needSync = s]
          BY <2>3, <2>6 DEF y
        <3> DEFINE c == RecordOf(R, p)
        <3>c. c \in AllContents /\ x \in Entries /\ d \in BOOLEAN /\ s \in BOOLEAN
          BY <2>1, <2>2, <2>6
        <3> HIDE DEF c
        <3>2. ReadIs(x, c, d, s, y)
          <4>1. y = ReadBack(x, c, d, s)
            BY <3>1 DEF c, ReadBack
          <4> QED BY <4>1, <3>c, RecordSet
        <3>3. /\ y \in Entries /\ y.content = c /\ y.dirty = d /\ y.needSync = s
              /\ y.inJournal = x.inJournal /\ y.alwaysRollback = x.alwaysRollback
          BY <3>2 DEF ReadIs
        <3> QED BY <3>3, <2>5, <2>6 DEF y, x, c
      <2>7. CASE p \notin Recorded(R)
        <3>1. y = x
          BY <2>4, <2>7 DEF y
        <3>2. /\ y \in Entries /\ y.inJournal = x.inJournal
              /\ y.alwaysRollback = x.alwaysRollback
              /\ y.dirty <=> x.dirty /\ ~(back /\ p \in Recorded(R))
              /\ y.needSync <=> x.needSync /\ ~(back /\ p \in Recorded(R))
              /\ y.content = IF p \in Recorded(R) THEN RecordOf(R, p) ELSE x.content
          BY <3>1, <2>1, <2>7
        <3> HIDE DEF new
        <3> QED BY <3>2 DEF y, x
      <2> QED BY <2>6, <2>7
    <1> DEFINE e2 == View(f2, w)
    <1>10. DOMAIN ca = DOMAIN g.cache /\ ca \in [DOMAIN g.cache -> Entries]
           /\ \A p \in DOMAIN g.cache : ca[p] = new(p)
      <2>1. \A p \in DOMAIN g.cache : new(p) \in Entries
        BY <1>9, Zenon
      <2> HIDE DEF new
      <2> QED BY <2>1
    <1> HIDE DEF ca, new
    <1>11. NoStmt \in Statements /\ ~NoStmt.inUse
      <2>1. <<>> \in Seq(Records) /\ 0 \in 0..MostPages
        BY PageNumber
      <2> QED BY <2>1 DEF Statements, NoStmt
    <1>12. /\ w \in PagersWith(ca) /\ w.cache = ca
           /\ w.state = g.state /\ w.dbSize = n /\ w.origDbSize = g.origDbSize
           /\ w.journal = g.journal /\ w.inJournal = g.inJournal
           /\ w.alwaysRollback = g.alwaysRollback /\ w.stmt = NoStmt
           /\ w.counted = g.counted
      <2> HIDE DEF n
      <2> QED BY <1>1, <1>3, <1>6, <1>11 DEF PagersWith
    <1>13. GoodPager(w) /\ 1 \in DOMAIN w.cache
      BY <1>1, <1>10, <1>11, <1>12 DEF GoodPager
    <1>14. UndonePager(f, g, f2, w)
      BY <1>7, <1>11, <1>12 DEF UndonePager
    <1>15. ASSUME NEW p \in PageNumbers
           PROVE  UndonePage(f, g, f2, p, View(f, g)[p], View(f2, w)[p])
      <2> DEFINE x == View(f, g)[p]
                 x2 == View(f2, w)[p]
      <2>1. x = EntryOf(f, g, p) /\ x2 = EntryOf(f2, w, p)
        BY DEF View
      <2> HIDE DEF x, x2
      <2>2. /\ x2.inJournal = x.inJournal /\ x2.alwaysRollback = x.alwaysRollback
            /\ x2.dirty <=> x.dirty /\ ~(back /\ p \in Recorded(R))
            /\ x2.needSync <=> x.needSync /\ ~(back /\ p \in Recorded(R))
            /\ p \in DOMAIN g.cache
               => x2.content = IF p \in Recorded(R) THEN RecordOf(R, p) ELSE x.content
            /\ p \notin DOMAIN g.cache => /\ ~x.dirty /\ (x2.inJournal <=> p \in g.inJournal)
                                          /\ p <= n => x2.content = At(f2, p)
        <3>1. CASE p \in DOMAIN g.cache
          <4>1. x = g.cache[p] /\ x2 = new(p)
            BY <3>1, <2>1, <1>10, <1>12 DEF EntryOf
          <4> HIDE DEF back
          <4> QED BY <4>1, <3>1, <1>9
        <3>2. CASE p \notin DOMAIN g.cache
          <4> DEFINE c == IF p > g.dbSize THEN Zeros ELSE At(f, p)
                     c2 == IF p > n THEN Zeros ELSE At(f2, p)
                     j == p \in g.inJournal
          <4>1. x = Entry(c, j) /\ x2 = Entry(c2, j)
            BY <3>2, <2>1, <1>10, <1>12 DEF EntryOf
          <4>2. p <= n => c2 = At(f2, p)
            <5>1. p \in Nat
              BY PageNumber
            <5> HIDE DEF n
            <5>2. p <= n => ~(p > n)
              BY <5>1, <1>3
            <5> QED BY <5>2
          <4> HIDE DEF c, c2, back
          <4>3. j <=> p \in g.inJournal
            OBVIOUS
          <4> HIDE DEF j
          <4>4. /\ x.dirty = FALSE /\ x2.dirty = FALSE
                /\ x.needSync = FALSE /\ x2.needSync = FALSE
                /\ x.inJournal = j /\ x2.inJournal = j
                /\ x.alwaysRollback = FALSE /\ x2.alwaysRollback = FALSE
                /\ x2.content = c2
            BY <4>1 DEF Entry
          <4> QED BY <4>2, <4>3, <4>4, <3>2
        <3> QED BY <3>1, <3>2
      <2> QED BY <2>2, <1>8 DEF UndonePage, x, x2, R
    <1> QED BY <1>7, <1>13, <1>14, <1>15

LEMMA RollbackStmtKeeps ==
    ASSUME Kept, RollbackStmt, forgotten = {}, forgotten' = {}
    PROVE  Kept'
    <1> DEFINE h == Holding(Book)
               hb == Holding(atBegin)
               hs == Holding(atStmt)
               e == View(dbFile, pager)
               e2 == View(dbFile', pager')
               n == pager.stmt.size
               back == pager.state = "exclusive"
               R == Saved(pager)
    <1>1. /\ pager.stmt.inUse /\ Undoes(dbFile, pager, dbFile', pager')
          /\ used' = atStmt.used /\ trunks' = atStmt.trunks
          /\ inStmt' = {} /\ dropped' = dropped /\ atBegin' = atBegin /\ atStmt' = atStmt
          /\ twice' = twice /\ calls' = calls
          /\ early' = IF back THEN early \cup (Recorded(R) \cap Uncounted(pager)) ELSE early
          /\ forgotten' = forgotten
                \cup (IF inStmt \cap hs = {} THEN {} ELSE {"not dirty"})
                \cup (IF DOMAIN pager.cache \subseteq 1..n THEN {} ELSE {"not new"})
      BY DEF RollbackStmt, Undoes, Saved, InFile, At
    <1>2. inStmt \cap hs = {} /\ DOMAIN pager.cache \subseteq 1..n
      BY <1>1
    <1>3. pager.state # "shared"
      BY <1>1 DEF Kept, BetweenTransactions
    <1>4. /\ Typed /\ twice = {} /\ GoodFile(dbFile) /\ GoodPager(pager) /\ 1 \in DOMAIN pager.cache
          /\ atBegin \in Books /\ atStmt \in Books /\ calls \in 0..MaxCalls
          /\ dropped \subseteq PageNumbers /\ early \subseteq PageNumbers
          /\ h \in SUBSET PageNumbers /\ hb \in SUBSET PageNumbers /\ hs \in SUBSET PageNumbers
          /\ 1 \in hb /\ 1 \in hs /\ e \in [PageNumbers -> Entries]
      BY <1>3, InStatement
    <1>5. PICK old, mid : /\ Remembered(old, mid)
                          /\ PagerGood(dbFile, pager, e, h, hb, hs, old, mid, dropped, inStmt, early)
      BY <1>3, InStatement
    <1>6. /\ Marks(pager, e) /\ Sizes(dbFile, pager, e)
          /\ TransKept(dbFile, pager, e, hb, old, dropped)
          /\ WaitKept(dbFile, pager, e, hb, old, early)
          /\ StmtMarks(pager) /\ Flagged(pager, e, (hb \cup hs) \ (h \cap hs))
          /\ StmtKept(dbFile, pager, e, hs, mid)
      BY <1>1, <1>2, <1>5 DEF PagerGood
    <1>7. /\ RowsKept(old, atBegin) /\ IsList(old, atBegin, pager.origDbSize)
          /\ RowsKept(mid, atStmt) /\ IsList(mid, atStmt, n)
      BY <1>1, <1>2, <1>5 DEF Remembered
    <1>8. /\ pager.state \in {"shared", "reserved", "exclusive"}
          /\ pager.origDbSize \in Nat /\ pager.origDbSize <= n /\ n <= pager.dbSize
          /\ n \in Nat /\ pager.dbSize \in Nat /\ pager.dbSize \in PageNumbers
          /\ pager.dbSize <= MostPages /\ Len(dbFile) \in Nat
          /\ pager.inJournal \subseteq 1..pager.origDbSize
          /\ DOMAIN pager.cache \subseteq PageNumbers
      BY <1>1, <1>4, PagerFields, PageNumber DEF GoodPager, GoodFile
    <1>9. n \in PageNumbers
      <2>1. 1 <= n
        BY <1>4, <1>6 DEF StmtKept
      <2>2. MostPages \in Nat
        BY PageNumber
      <2> HIDE DEF n
      <2> QED BY <2>1, <2>2, <1>8 DEF PageNumbers
    <1>10. Once(pager.journal)
      BY <1>6 DEF Marks
    <1>11. /\ GoodFile(dbFile') /\ GoodPager(pager') /\ 1 \in DOMAIN pager'.cache
           /\ UndonePager(dbFile, pager, dbFile', pager')
           /\ \A p \in PageNumbers : UndonePage(dbFile, pager, dbFile', p, e[p], e2[p])
      BY <1>1, <1>4, <1>6, <1>9, <1>10, UndoEffect
    <1>12. /\ pager'.state = pager.state /\ pager'.dbSize = n
           /\ pager'.origDbSize = pager.origDbSize
           /\ pager'.journal = pager.journal /\ pager'.inJournal = pager.inJournal
           /\ pager'.alwaysRollback = pager.alwaysRollback /\ ~pager'.stmt.inUse
           /\ pager'.counted = pager.counted /\ Len(dbFile') = n
      BY <1>11 DEF UndonePager
    <1>13. ASSUME NEW p \in PageNumbers
           PROVE  /\ p <= n => At(dbFile', p) = IF back /\ p \in Recorded(R) THEN RecordOf(R, p)
                                                ELSE At(dbFile, p)
                  /\ e2[p].inJournal = e[p].inJournal
                  /\ e2[p].alwaysRollback = e[p].alwaysRollback
                  /\ e2[p].dirty <=> e[p].dirty /\ ~(back /\ p \in Recorded(R))
                  /\ e2[p].needSync <=> e[p].needSync /\ ~(back /\ p \in Recorded(R))
                  /\ p \in DOMAIN pager.cache
                     => e2[p].content = IF p \in Recorded(R) THEN RecordOf(R, p) ELSE e[p].content
                  /\ p \notin DOMAIN pager.cache
                     => /\ ~e[p].dirty /\ (e2[p].inJournal <=> p \in pager.inJournal)
                        /\ p <= n => e2[p].content = At(dbFile', p)
      BY <1>11 DEF UndonePage
    <1>14. /\ Recorded(R) = InStmt(pager) /\ Once(R) /\ Len(R) \in Nat
           /\ \A p, c : Has(pager.stmt.saved, 0, p, c) \/ Has(pager.journal, pager.stmt.skip, p, c)
                        => Has(R, 0, p, c)
      BY <1>1, <1>4, <1>6, <1>10, SavedIs
    <1>15. ~back => pager.state = "reserved"
      BY <1>3, <1>8
    <1>16. HeldBy(pager)' = [p \in PageNumbers |-> e2[p].content]
      BY DEF HeldBy
    <1>17. Book' = atStmt
      BY <1>1, <1>4 DEF Book, Books
    <1> HIDE DEF h, hb, hs, e, e2, n, back, R
    <1>18. ASSUME NEW p \in hs
           PROVE  /\ p \in PageNumbers /\ p <= n /\ e2[p].content = mid[p]
                  /\ ~e2[p].dirty => At(dbFile', p) = e2[p].content
      <2>1. p \in PageNumbers /\ p <= n
        BY <1>4, <1>6 DEF StmtKept, n
      <2>2. /\ p \in Recorded(R)
               => Has(pager.stmt.saved, 0, p, mid[p])
                  \/ Has(pager.journal, pager.stmt.skip, p, mid[p])
            /\ p \in Recorded(R) /\ ~back => e[p].dirty
            /\ p \notin Recorded(R) => e[p].content = mid[p]
            /\ p \notin Recorded(R) /\ ~e[p].dirty => At(dbFile, p) = mid[p]
        BY <1>6, <1>14, <1>15 DEF StmtKept
      <2>3. p \in Recorded(R) => RecordOf(R, p) = mid[p]
        BY <2>2, <1>14, RecordIs
      <2>4. /\ At(dbFile', p) = IF back /\ p \in Recorded(R) THEN RecordOf(R, p)
                                ELSE At(dbFile, p)
            /\ e2[p].dirty <=> e[p].dirty /\ ~(back /\ p \in Recorded(R))
            /\ p \in DOMAIN pager.cache
               => e2[p].content = IF p \in Recorded(R) THEN RecordOf(R, p) ELSE e[p].content
            /\ p \notin DOMAIN pager.cache
               => ~e[p].dirty /\ e2[p].content = At(dbFile', p)
        BY <2>1, <1>13
      <2>5. e2[p].content = mid[p] /\ (~e2[p].dirty => At(dbFile', p) = mid[p])
        <3>1. CASE p \in Recorded(R)
          BY <3>1, <2>2, <2>3, <2>4
        <3>2. CASE p \notin Recorded(R)
          BY <3>2, <2>2, <2>4
        <3> QED BY <3>1, <3>2
      <2> QED BY <2>1, <2>5
    <1>19. Marks(pager', e2)
      <2>1. /\ Recorded(pager.journal) \subseteq pager.inJournal
            /\ \A p \in PageNumbers :
                  p <= pager.origDbSize => (e[p].inJournal <=> p \in pager.inJournal)
        BY <1>6 DEF Marks
      <2>2. ASSUME NEW p \in PageNumbers, p > n
            PROVE  ~e2[p].inJournal /\ ~e2[p].dirty
        <3>1. p \in Nat
          BY PageNumber
        <3>2. p \notin 1..n /\ p \notin 1..pager.origDbSize
          BY <3>1, <2>2, <1>8 DEF n
        <3>3. p \notin DOMAIN pager.cache /\ p \notin pager.inJournal
          BY <3>2, <1>2, <1>8 DEF n
        <3> QED BY <3>3, <1>13
      <2>3. \A p \in PageNumbers :
               p <= pager.origDbSize => (e2[p].inJournal <=> p \in pager.inJournal)
        BY <2>1, <1>13
      <2> QED BY <2>1, <2>2, <2>3, <1>10, <1>12 DEF Marks
    <1>20. Sizes(dbFile', pager', e2)
      <2>1. n <= n /\ pager.origDbSize <= n
        BY <1>8 DEF n
      <2> QED BY <2>1, <1>12 DEF Sizes
    <1>21. NowKept(dbFile', pager', e2, hs)
      BY <1>12, <1>18 DEF NowKept
    <1>22. TransKept(dbFile', pager', e2, hb, old, dropped)
      <2>1. /\ InStmt(pager) = Recorded(pager.stmt.saved)
                               \cup RecordedFrom(pager.journal, pager.stmt.skip)
            /\ Recorded(pager.stmt.saved) \cap (1..pager.origDbSize) \subseteq pager.inJournal
        BY <1>6 DEF InStmt, StmtMarks
      <2>2. RecordedFrom(pager.journal, pager.stmt.skip) \subseteq pager.inJournal
        <3>1. Recorded(pager.journal) \subseteq pager.inJournal
          BY <1>6 DEF Marks
        <3>2. \A j \in pager.stmt.skip + 1..Len(pager.journal) : j \in 1..Len(pager.journal)
          <4> DEFINE k == pager.stmt.skip
                     m == Len(pager.journal)
          <4>1. k \in Nat /\ m \in Nat
            BY <1>4, PagerFields
          <4> HIDE DEF k, m
          <4>2. \A j \in k + 1..m : j \in 1..m
            BY <4>1
          <4> QED BY <4>2 DEF k, m
        <3> QED BY <3>1, <3>2 DEF Recorded, RecordedFrom
      <2> SUFFICES ASSUME NEW p \in hb
                   PROVE  /\ p <= pager'.origDbSize
                          /\ pager'.state = "reserved" => At(dbFile', p) = old[p]
                          /\ p \in pager'.inJournal => Has(pager'.journal, 0, p, old[p])
                          /\ p \in pager'.inJournal /\ pager'.state = "reserved"
                             => e2[p].dirty \/ p \in dropped
                          /\ p \notin pager'.inJournal
                             => At(dbFile', p) = old[p] /\ ~e2[p].dirty /\ e2[p].content = old[p]
        BY DEF TransKept
      <2>3. /\ p <= pager.origDbSize
            /\ pager.state = "reserved" => At(dbFile, p) = old[p]
            /\ p \in pager.inJournal => Has(pager.journal, 0, p, old[p])
            /\ p \in pager.inJournal /\ pager.state = "reserved" => e[p].dirty \/ p \in dropped
            /\ p \notin pager.inJournal
               => At(dbFile, p) = old[p] /\ ~e[p].dirty /\ e[p].content = old[p]
        BY <1>6 DEF TransKept
      <2>4. p \in PageNumbers /\ p <= n /\ p \in 1..pager.origDbSize
        <3>1. p \in PageNumbers /\ p \in Nat
          BY <1>4, PageNumber
        <3>2. p \in 1..pager.origDbSize
          BY <3>1, <2>3, <1>8, InRange
        <3>3. p <= n
          BY <3>1, <2>3, <1>8 DEF n
        <3> QED BY <3>1, <3>2, <3>3
      <2>5. p \notin pager.inJournal => p \notin Recorded(R)
        BY <2>1, <2>2, <2>4, <1>14
      <2>6. /\ At(dbFile', p) = IF back /\ p \in Recorded(R) THEN RecordOf(R, p)
                                ELSE At(dbFile, p)
            /\ e2[p].dirty <=> e[p].dirty /\ ~(back /\ p \in Recorded(R))
            /\ p \in DOMAIN pager.cache
               => e2[p].content = IF p \in Recorded(R) THEN RecordOf(R, p) ELSE e[p].content
            /\ p \notin DOMAIN pager.cache
               => ~e[p].dirty /\ e2[p].content = At(dbFile', p)
        BY <2>4, <1>13
      <2>7. pager.state = "reserved" => ~back
        BY DEF back
      <2>8. pager.state = "reserved"
            => At(dbFile', p) = old[p] /\ (p \in pager.inJournal => e2[p].dirty \/ p \in dropped)
        BY <2>3, <2>6, <2>7
      <2>9. p \notin pager.inJournal
            => At(dbFile', p) = old[p] /\ ~e2[p].dirty /\ e2[p].content = old[p]
        BY <2>3, <2>5, <2>6
      <2> QED BY <2>3, <2>8, <2>9, <1>12
    <1>a. Uncounted(pager) = RecordedFrom(pager.journal, pager.counted)
          /\ Uncounted(pager) \subseteq PageNumbers
      <2> DEFINE J == pager.journal
                 k == pager.counted
      <2>1. J \in Seq(Records) /\ k \in Nat /\ k <= Len(J) /\ Once(J)
        BY <1>4, <1>10, PagerFields DEF GoodPager
      <2>2. Uncounted(pager) = Recorded(SubSeq(J, k + 1, Len(J)))
        BY DEF Uncounted
      <2> HIDE DEF J, k
      <2>3. CountedAre(J, k, SubSeq(J, 1, k), SubSeq(J, k + 1, Len(J)))
        BY <2>1, CountedRecords
      <2>4. Recorded(J) \subseteq PageNumbers
        <3>1. \A i \in 1..Len(J) : J[i] \in Records
          BY <2>1, ElementOfSeq
        <3> QED BY <3>1 DEF Recorded, Records
      <2>5. RecordedFrom(J, k) \subseteq Recorded(J)
        BY <2>1, FromRecorded
      <2> QED BY <2>2, <2>3, <2>4, <2>5 DEF CountedAre, J, k
    <1>b. /\ early' \subseteq PageNumbers /\ early \subseteq early'
          /\ \A p \in Uncounted(pager) : back /\ p \in Recorded(R) => p \in early'
      <2>1. early' = IF back THEN early \cup (Recorded(R) \cap Uncounted(pager)) ELSE early
        BY <1>1 DEF back, R
      <2> QED BY <2>1, <1>4, <1>a
    <1>c. WaitKept(dbFile', pager', e2, hb, old, early')
      <2> SUFFICES ASSUME NEW p \in hb, p \notin early',
                          p \in RecordedFrom(pager'.journal, pager'.counted)
                   PROVE  At(dbFile', p) = old[p] /\ e2[p].needSync
        BY DEF WaitKept
      <2>1. p \in Uncounted(pager) /\ p \notin early /\ ~(back /\ p \in Recorded(R))
        BY <1>12, <1>a, <1>b
      <2>2. At(dbFile, p) = old[p] /\ e[p].needSync
        BY <2>1, <1>6, <1>a DEF WaitKept
      <2>3. p \in PageNumbers /\ p <= n
        <3>1. p \in PageNumbers /\ p \in Nat /\ p <= pager.origDbSize
          BY <1>4, <1>6, PageNumber DEF TransKept
        <3> QED BY <3>1, <1>8 DEF n
      <2> QED BY <2>1, <2>2, <2>3, <1>13
    <1>23. Flagged(pager', e2, hb \ hs)
      <2>1. \A p \in hb \ hs : pager.alwaysRollback \/ e[p].alwaysRollback
        BY <1>6 DEF Flagged
      <2> QED BY <2>1, <1>4, <1>12, <1>13 DEF Flagged
    <1>24. PagerGood(dbFile', pager', e2, hs, hb, hs, old, mid, dropped, {}, early')
      BY <1>3, <1>11, <1>12, <1>19, <1>20, <1>21, <1>22, <1>23, <1>c DEF PagerGood
    <1>25. SameIn(mid, HeldBy(pager)', hs)
      BY <1>16, <1>18 DEF SameIn
    <1>26. RowsKept(HeldBy(pager)', Book') /\ IsList(HeldBy(pager)', Book', pager'.dbSize)
      <2> DEFINE c2 == HeldBy(pager)'
      <2>1. atStmt \in Books /\ SameIn(mid, c2, Holding(atStmt)) /\ IsList(mid, atStmt, n)
            /\ RowsKept(mid, atStmt)
        BY <1>4, <1>7, <1>25 DEF hs, n
      <2> HIDE DEF c2
      <2>2. RowsKept(c2, atStmt) /\ IsList(c2, atStmt, n)
        BY <2>1, ListSame
      <2> QED BY <2>2, <1>12, <1>17 DEF c2
    <1>27. Remembered(old, mid)'
      BY <1>1, <1>7, <1>12 DEF Remembered
    <1>28. InTransaction'
      <2>1. PagerGood(dbFile', pager', View(dbFile', pager'), Holding(Book'), Holding(atBegin'),
                      Holding(atStmt'), old, mid, dropped', inStmt', early')
        BY <1>1, <1>17, <1>24 DEF e2, hs, hb
      <2> QED BY <2>1, <1>27 DEF InTransaction
    <1>29. Typed'
      BY <1>1, <1>4, <1>11, <1>17, <1>b DEF Typed
    <1> QED BY <1>1, <1>3, <1>4, <1>12, <1>26, <1>28, <1>29 DEF Kept

-----------------------------------------------------------------------------
\* At the start the file has a row in every page but the first.
LEMMA FreePagesStarts ==
    ASSUME FreePagesInit
    PROVE  Kept
    <1> DEFINE n == FirstPages
               e == View(dbFile, pager)
               h == Holding(Book)
    <1>1. PICK v \in Data : used = [p \in 2..n |-> v]
      BY DEF FreePagesInit
    <1>2. /\ dbFile = [p \in 1..n |-> IF p = 1 THEN Zeros ELSE Row(used[p])]
          /\ pager = [state |-> "shared", cache |-> [p \in {1} |-> Entry(Zeros, FALSE)],
                      dbSize |-> n, origDbSize |-> 0, alwaysRollback |-> FALSE,
                      journal |-> <<>>, inJournal |-> {}, counted |-> 0, started |-> FALSE,
                      stmt |-> NoStmt]
          /\ trunks = <<>> /\ atBegin = Book /\ atStmt = Book /\ dropped = {} /\ inStmt = {}
          /\ early = {} /\ twice = {} /\ calls = 0
      BY DEF FreePagesInit
    <1>3. n \in PageNumbers /\ n \in Nat /\ n >= 1 /\ MaxCalls \in Nat
      BY FreePagesAssumption, PageNumber DEF PageNumbers
    <1> HIDE DEF n
    <1>4. /\ \A p \in 2..n : p \in PageNumbers \ {1} /\ p \in 1..n
          /\ \A p \in 1..n : p \in PageNumbers
      BY <1>3, PageNumber DEF PageNumbers
    <1>5. Book \in Books /\ Book.used = used /\ Book.trunks = <<>>
      <2>1. used \in [DOMAIN used -> Data] /\ DOMAIN used \subseteq PageNumbers \ {1}
        BY <1>1, <1>4
      <2>2. <<>> \in Seq(PageNumbers \ {1})
        OBVIOUS
      <2>3. Book = [used |-> used, trunks |-> <<>>]
        BY <1>2 DEF Book
      <2> QED BY <2>1, <2>2, <2>3, ABook
    <1>6. GoodFile(dbFile) /\ Len(dbFile) = n /\ dbFile[1] = Zeros
          /\ \A p \in 2..n : dbFile[p] = Row(v)
      <2>1. \A p \in 2..n : used[p] = v /\ p # 1 /\ p \in 1..n
        BY <1>1, <1>4
      <2>2. \A p \in 1..n : p = 1 \/ p \in 2..n
        BY <1>3
      <2>3. \A p \in 2..n : dbFile[p] = Row(v)
        BY <2>1, <1>2
      <2>4. dbFile[1] = Zeros
        <3>1. 1 \in 1..n
          BY <1>3
        <3> QED BY <3>1, <1>2
      <2>5. Row(v) \in AllContents /\ Zeros \in AllContents
        BY ContentsType
      <2>6. dbFile \in [1..n -> AllContents]
        BY <2>2, <2>3, <2>4, <2>5, <1>2
      <2> QED BY <2>3, <2>4, <2>6, <1>3, MakeFile
    <1>7. NoStmt \in Statements /\ ~NoStmt.inUse
      <2>1. <<>> \in Seq(Records) /\ 0 \in 0..MostPages
        BY PageNumber
      <2> QED BY <2>1 DEF Statements, NoStmt
    <1> DEFINE ca == [p \in {1} |-> Entry(Zeros, FALSE)]
    <1>8. /\ Entry(Zeros, FALSE) \in Entries
          /\ Entry(Zeros, FALSE).content = Zeros /\ ~Entry(Zeros, FALSE).dirty
          /\ ~Entry(Zeros, FALSE).inJournal
      BY ContentsType DEF Entry, Entries
    <1>9. DOMAIN ca = {1} /\ ca \in [{1} -> Entries] /\ ca[1] = Entry(Zeros, FALSE)
      BY <1>8
    <1>10. pager = [state |-> "shared", cache |-> ca, dbSize |-> n, origDbSize |-> 0,
                    alwaysRollback |-> FALSE, journal |-> <<>>, inJournal |-> {},
                    counted |-> 0, started |-> FALSE, stmt |-> NoStmt]
      BY <1>2
    <1> HIDE DEF ca
    <1>11. /\ pager \in PagersWith(ca) /\ pager.cache = ca /\ pager.state = "shared"
           /\ pager.dbSize = n /\ pager.origDbSize = 0 /\ pager.journal = <<>>
           /\ pager.inJournal = {} /\ pager.stmt = NoStmt /\ pager.counted = 0
      <2>1. <<>> \in Seq(Records) /\ 0 \in 0..MostPages /\ {} \in SUBSET PageNumbers
            /\ 0 \in Nat
        BY PageNumber
      <2> QED BY <2>1, <1>3, <1>7, <1>10 DEF PagersWith
    <1>12. GoodPager(pager) /\ 1 \in DOMAIN pager.cache
      <2>1. DOMAIN pager.cache \subseteq PageNumbers
        BY <1>9, <1>11, PageNumber
      <2>2. pager.origDbSize <= pager.dbSize /\ pager.counted <= Len(pager.journal)
        BY <1>3, <1>11
      <2> QED BY <2>1, <2>2, <1>7, <1>9, <1>11 DEF GoodPager
    <1>13. ASSUME NEW p \in PageNumbers
           PROVE  /\ ~e[p].dirty /\ ~e[p].inJournal
                  /\ p <= n => e[p].content = At(dbFile, p)
      <2>1. e[p] = EntryOf(dbFile, pager, p)
        BY DEF View
      <2>2. CASE p = 1
        <3>1. e[p] = Entry(Zeros, FALSE)
          BY <2>1, <2>2, <1>9, <1>11 DEF EntryOf
        <3>2. p <= n => At(dbFile, p) = Zeros
          BY <2>2, <1>6 DEF At
        <3> QED BY <3>1, <3>2, <1>8
      <2>3. CASE p # 1
        <3> DEFINE x == IF p > n THEN Zeros ELSE At(dbFile, p)
                   j == p \in pager.inJournal
        <3>1. ~j
          BY <1>11
        <3>2. p <= n => x = At(dbFile, p)
          <4>1. p \in Nat
            BY PageNumber
          <4>2. p <= n => ~(p > n)
            BY <4>1, <1>3
          <4> QED BY <4>2
        <3>3. p \notin DOMAIN pager.cache
          BY <2>3, <1>9, <1>11
        <3>4. EntryOf(dbFile, pager, p) = Entry(x, j)
          BY <3>3, <1>11 DEF EntryOf
        <3> HIDE DEF x, j
        <3>5. Entry(x, j).content = x /\ ~Entry(x, j).dirty /\ Entry(x, j).inJournal = j
          BY DEF Entry
        <3> QED BY <3>1, <3>2, <3>4, <3>5, <2>1
      <2> QED BY <2>2, <2>3
    <1>14. h = {1} \cup 2..n
      <2>1. Items(<<>>) = {}
        BY DEF Items
      <2>2. DOMAIN used = 2..n
        BY <1>1
      <2> QED BY <2>1, <2>2, <1>5 DEF Holding
    <1>15. HeldBy(pager) = [p \in PageNumbers |-> e[p].content]
      BY DEF HeldBy
    <1> HIDE DEF e, h
    <1>16. \A p \in h : p \in PageNumbers /\ p <= n
      BY <1>3, <1>4, <1>14
    <1>17. NowKept(dbFile, pager, e, h)
      BY <1>11, <1>13, <1>16 DEF NowKept
    <1>18. BetweenTransactions
      BY <1>2, <1>6, <1>7, <1>11, <1>13, <1>17 DEF BetweenTransactions, e, h
    <1>19. RowsKept(HeldBy(pager), Book)
      <2> SUFFICES ASSUME NEW p \in 2..n
                   PROVE  HeldBy(pager)[p].row = used[p]
        BY <1>1, <1>5 DEF RowsKept
      <2>1. p \in PageNumbers /\ p <= n
        BY <1>4, <1>3
      <2>2. HeldBy(pager)[p] = Row(v)
        BY <2>1, <1>6, <1>13, <1>15 DEF At
      <2>3. Row(v).row = v
        BY DEF Row, Contents
      <2> QED BY <2>2, <2>3, <1>1
    <1>20. IsList(HeldBy(pager), Book, n)
      <2> DEFINE c == HeldBy(pager)
      <2>1. c[1] = Zeros
        BY <1>3, <1>6, <1>13, <1>15, PageNumber DEF At
      <2>2. c[1].next = 0 /\ c[1].free = 0
        BY <2>1 DEF Zeros, Contents
      <2> HIDE DEF c
      <2>3. 1..Len(<<>>) = {} /\ Len(<<>>) = 0
        OBVIOUS
      <2>4. FreeIn(c, <<>>) = {}
        BY <2>3 DEF FreeIn, Items
      <2>5. Cardinality({}) = 0
        BY FS_EmptySet
      <2>6. Distinct(<<>>)
        BY DEF Distinct
      <2>7. Chain(c, <<>>)
        BY <2>2, <2>3, <2>4, <2>5, <2>6 DEF Chain, Link
      <2> QED BY <2>4, <2>7, <1>5 DEF IsList, c
    <1>21. Typed
      BY <1>2, <1>3, <1>5, <1>6, <1>12 DEF Typed
    <1> QED BY <1>2, <1>11, <1>18, <1>19, <1>20, <1>21 DEF Kept

\* What a rollback has forgotten stays forgotten.
LEMMA StaysForgotten ==
    ASSUME FreePagesNext, forgotten' = {}
    PROVE  forgotten = {}
    BY DEF FreePagesNext, ChangeRow, Allocate, Free, MakeRoom, BeginTrans, CommitTrans,
           RollbackTrans, BeginStmt, CommitStmt, RollbackStmt, ghosts

LEMMA FreePagesStep ==
    ASSUME FreePagesInv, [FreePagesNext]_freePagesVars
    PROVE  FreePagesInv'
    <1> SUFFICES ASSUME forgotten' = {}
                 PROVE  Kept'
      BY DEF FreePagesInv
    <1>1. CASE UNCHANGED freePagesVars
      <2>1. /\ dbFile' = dbFile /\ pager' = pager /\ used' = used /\ trunks' = trunks
            /\ atBegin' = atBegin /\ atStmt' = atStmt /\ dropped' = dropped
            /\ inStmt' = inStmt /\ early' = early /\ twice' = twice /\ forgotten' = forgotten /\ calls' = calls
        BY <1>1 DEF freePagesVars, ghosts
      <2>2. Kept
        BY <2>1 DEF FreePagesInv
      <2>3. HeldBy(pager)' = HeldBy(pager) /\ Book' = Book
        BY <2>1 DEF HeldBy, Book
      <2>4. Typed' /\ (BetweenTransactions <=> BetweenTransactions')
            /\ (InTransaction <=> InTransaction')
        BY <2>1, <2>2, <2>3 DEF Kept, Typed, BetweenTransactions, InTransaction, Remembered
      <2> QED BY <2>1, <2>2, <2>3, <2>4 DEF Kept
    <1>2. CASE FreePagesNext
      <2>1. forgotten = {} /\ Kept
        BY <1>2, StaysForgotten DEF FreePagesInv
      <2> QED BY <1>2, <2>1, ChangeRowKeeps, AllocateKeeps, FreeKeeps, MakeRoomKeeps,
                 BeginTransKeeps, CommitTransKeeps, RollbackTransKeeps,
                 BeginStmtKeeps, CommitStmtKeeps, RollbackStmtKeeps
                 DEF FreePagesNext
    <1> QED BY <1>1, <1>2

LEMMA FreePagesInvariant == FreePagesSpec => []FreePagesInv
    <1>1. FreePagesInit => FreePagesInv
      BY FreePagesStarts DEF FreePagesInv
    <1>2. FreePagesInv /\ [FreePagesNext]_freePagesVars => FreePagesInv'
      BY FreePagesStep
    <1> QED BY <1>1, <1>2, PTL DEF FreePagesSpec

\* What the pager holds is what the properties speak of.
LEMMA NowIs ==
    ASSUME Kept
    PROVE  Now = HeldBy(pager)
    <1>1. GoodFile(dbFile) /\ GoodPager(pager)
      BY DEF Kept, Typed
    <1>2. \A p \in PageNumbers : Content(pager, p) = HeldBy(pager)[p]
      BY <1>1, HeldIs
    <1>3. HeldBy(pager) = [p \in PageNumbers |-> HeldBy(pager)[p]]
      BY DEF HeldBy
    <1> QED BY <1>2, <1>3 DEF Now

\* The file, the cache, the two journals and the accounts of the B-tree have
\* their types, and the bounds of the journals and of the statement hold.
THEOREM FreePagesTypeCorrect == FreePagesSpec => [](forgotten = {} => FreePagesTypeOK)
    <1>1. FreePagesInv => (forgotten = {} => FreePagesTypeOK)
      BY DEF FreePagesInv, Kept, Typed, GoodPager, GoodFile, FreePagesTypeOK
    <1> QED BY <1>1, FreePagesInvariant, PTL

\* Every page in use holds what was written to it last and not rolled back.
THEOREM RowsSurvive == FreePagesSpec => []IntactOtherwise
    <1>1. FreePagesInv => IntactOtherwise
      <2> SUFFICES ASSUME Kept
                   PROVE  RowsKept(Now, Book)
        BY DEF FreePagesInv, IntactOtherwise, Intact
      <2>1. Now = HeldBy(pager)
        BY NowIs
      <2> QED BY <2>1 DEF Kept
    <1> QED BY <1>1, FreePagesInvariant, PTL

\* The list of free pages is one: its length is that of page 1, no trunk is
\* overfull, no page is on it twice and none of them is in use.
THEOREM ListStaysSound == FreePagesSpec => []ListSoundOtherwise
    <1>1. FreePagesInv => ListSoundOtherwise
      <2> SUFFICES ASSUME Kept
                   PROVE  IsList(Now, Book, pager.dbSize)
        BY DEF FreePagesInv, ListSoundOtherwise, ListSound
      <2>1. Now = HeldBy(pager)
        BY NowIs
      <2> QED BY <2>1 DEF Kept
    <1> QED BY <1>1, FreePagesInvariant, PTL

\* allocatePage hands out no page that is in use.
THEOREM PagesHaveOneOwner == FreePagesSpec => []OneOwnerOtherwise
    <1>1. FreePagesInv => OneOwnerOtherwise
      BY DEF FreePagesInv, Kept, OneOwnerOtherwise, OneOwner
    <1> QED BY <1>1, FreePagesInvariant, PTL

\* Between transactions the file alone has all the rows.
THEOREM CommittedOnFile == FreePagesSpec => [](forgotten = {} => OnFile)
    <1>1. FreePagesInv => (forgotten = {} => OnFile)
      <2> SUFFICES ASSUME Kept, pager.state = "shared", NEW p \in DOMAIN used
                   PROVE  p <= Len(dbFile) /\ dbFile[p].row = used[p]
        BY DEF FreePagesInv, OnFile
      <2> DEFINE e == View(dbFile, pager)
      <2>1. /\ Book \in Books /\ Len(dbFile) = pager.dbSize
            /\ \A q \in PageNumbers : ~e[q].dirty
            /\ NowKept(dbFile, pager, e, Holding(Book))
            /\ RowsKept(HeldBy(pager), Book)
        BY DEF Kept, Typed, BetweenTransactions
      <2>2. Book.used = used
        BY DEF Book
      <2>3. p \in Holding(Book) /\ p \in PageNumbers
        BY <2>1, <2>2, BookParts DEF Holding
      <2>4. p <= Len(dbFile) /\ At(dbFile, p) = e[p].content
        BY <2>1, <2>3 DEF NowKept
      <2>5. e[p].content.row = used[p]
        BY <2>1, <2>2, <2>3 DEF RowsKept, HeldBy
      <2> QED BY <2>4, <2>5 DEF At
    <1> QED BY <1>1, FreePagesInvariant, PTL

=============================================================================
