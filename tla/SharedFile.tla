------------------------------- MODULE SharedFile -------------------------------
(***************************************************************************)
(* Several processes with the same SQLite database: the server before and  *)
(* after a restart, a second server, a tool.  The locks are those of       *)
(* os_win.c, one call of the operating system per step, the callers are    *)
(* the pager's (pager.c), with the contents of the file reduced to what    *)
(* the locks must protect.                                                 *)
(***************************************************************************)
EXTENDS Naturals, FiniteSets

CONSTANTS
    Procs,
    Nobody,
    MaxCommits,  \* bound: transactions that are committed
    MaxExits     \* bound: ends of a process

ASSUME SharedFileAssumption ==
    /\ Nobody \notin Procs
    /\ MaxCommits \in Nat
    /\ MaxExits \in Nat

VARIABLES
    pending,      \* who has locked the pending byte,
    reserved,     \* ... the reserved byte,
    exclusive,    \* ... the shared range, alone,
    shared,       \* ... or together with others
    locktype,     \* OsFile.locktype
    pagerState,   \* Pager.state
    at,           \* where a process is
    seen,         \* the version of the database a process reads
    version,      \* the version in the file
    torn,         \* the file is half written
    journalFile,  \* "none", "empty", or "full": it restores the file
    opener,       \* who has the journal open
    lapses,       \* what went wrong with the locks
    exits

table == <<pending, reserved, exclusive, shared>>
content == <<version, torn, journalFile, opener>>
sharedFileVars == <<table, locktype, pagerState, at, seen, content, lapses, exits>>

Places == {"rest", "pending", "read", "unpend", "look", "probe", "unprobe", "hotdrop",
           "hotrange", "open", "playback", "create", "xpending", "xdrop", "xrange",
           "write", "finish", "drop", "reread", "release"}

SharedFileTypeOK ==
    /\ {pending, reserved, exclusive, opener} \subseteq Procs \cup {Nobody}
    /\ shared \subseteq Procs
    /\ locktype \in [Procs -> {"no", "shared", "reserved", "pending", "exclusive"}]
    /\ pagerState \in [Procs -> {"unlock", "shared", "reserved", "exclusive"}]
    /\ at \in [Procs -> Places]
    /\ \A p \in Procs : at[p] = "rest" => pagerState[p] # "exclusive" /\ locktype[p] # "exclusive"
    /\ seen \in [Procs -> 0..MaxCommits]
    /\ version \in 0..MaxCommits
    /\ torn \in BOOLEAN
    /\ journalFile \in {"none", "empty", "full"}
    /\ lapses \subseteq {"lock lost", "probe met probe", "overtaken"}
    /\ exits \in 0..MaxExits

SharedFileInit ==
    /\ pending = Nobody
    /\ reserved = Nobody
    /\ exclusive = Nobody
    /\ shared = {}
    /\ locktype = [p \in Procs |-> "no"]
    /\ pagerState = [p \in Procs |-> "unlock"]
    /\ at = [p \in Procs |-> "rest"]
    /\ seen = [p \in Procs |-> 0]
    /\ version = 0
    /\ torn = FALSE
    /\ journalFile = "none"
    /\ opener = Nobody
    /\ lapses = {}
    /\ exits = 0

-----------------------------------------------------------------------------
Freed(owner, p) == IF owner = p THEN Nobody ELSE owner
Goes(p, place) == at' = [at EXCEPT ![p] = place]

\* sqlite3OsUnlock to no lock at all, and every lock of a process that ends.
\* Unlocking what another process has locked does nothing.
UnlockAll(p) ==
    /\ pending' = Freed(pending, p)
    /\ reserved' = Freed(reserved, p)
    /\ exclusive' = Freed(exclusive, p)
    /\ shared' = shared \ {p}
    /\ locktype' = [locktype EXCEPT ![p] = "no"]
    /\ pagerState' = [pagerState EXCEPT ![p] = "unlock"]

\* Mutant of RangeFree: LockFile does not mind the shared locks.
RangeFreeOfWriters == exclusive = Nobody

\* The shared range is locked by nobody, this process included.
RangeFree == exclusive = Nobody /\ shared = {}

\* sqlite3OsLock, the pending byte: on the way to a shared lock, and from
\* reserved to exclusive.  Three attempts, then it is busy.
TakePending(p) ==
    /\ at[p] \in {"pending", "xpending"}
    /\ pending = Nobody
    /\ pending' = p
    /\ Goes(p, IF at[p] = "pending" THEN "read" ELSE "xdrop")
    /\ UNCHANGED <<reserved, exclusive, shared, locktype, pagerState, seen, content, lapses, exits>>

MissPending(p) ==
    /\ at[p] \in {"pending", "xpending"}
    /\ pending # Nobody
    /\ Goes(p, "rest")
    /\ UNCHANGED <<table, locktype, pagerState, seen, content, lapses, exits>>

\* ... a shared lock,
TakeShared(p) ==
    /\ at[p] = "read"
    /\ exclusive = Nobody
    /\ shared' = shared \cup {p}
    /\ locktype' = [locktype EXCEPT ![p] = "shared"]
    /\ Goes(p, "unpend")
    /\ UNCHANGED <<pending, reserved, exclusive, pagerState, seen, content, lapses, exits>>

MissShared(p) ==
    /\ at[p] = "read"
    /\ exclusive # Nobody
    /\ Goes(p, "unpend")
    /\ UNCHANGED <<table, locktype, pagerState, seen, content, lapses, exits>>

\* ... and the pending byte is given back, with the shared lock or without.
DropPending(p) ==
    /\ at[p] = "unpend"
    /\ locktype[p] = "shared"
    /\ pending' = Nobody
    /\ pagerState' = [pagerState EXCEPT ![p] = "shared"]
    /\ seen' = [seen EXCEPT ![p] = version]
    /\ Goes(p, "look")
    /\ UNCHANGED <<reserved, exclusive, shared, locktype, content, lapses, exits>>

GiveUpShared(p) ==
    /\ at[p] = "unpend"
    /\ locktype[p] # "shared"
    /\ pending' = Nobody
    /\ Goes(p, "rest")
    /\ UNCHANGED <<reserved, exclusive, shared, locktype, pagerState, seen, content, lapses, exits>>

-----------------------------------------------------------------------------
\* sqlite3pager_get, the first page.
GetFirst(p) ==
    /\ at[p] = "rest"
    /\ pagerState[p] = "unlock"
    /\ Goes(p, "pending")
    /\ UNCHANGED <<table, locktype, pagerState, seen, content, lapses, exits>>

\* Is there a journal?
Look(p) ==
    /\ at[p] = "look"
    /\ Goes(p, IF journalFile = "none" THEN "rest" ELSE "probe")
    /\ UNCHANGED <<table, locktype, pagerState, seen, content, lapses, exits>>

\* sqlite3OsCheckReservedLock: does anybody write with it?  The reserved byte
\* is locked, and unlocked if that worked.
Probe(p) ==
    /\ at[p] = "probe"
    /\ reserved = Nobody
    /\ reserved' = p
    /\ Goes(p, "unprobe")
    /\ UNCHANGED <<pending, exclusive, shared, locktype, pagerState, seen, content, lapses, exits>>

\* A byte that is locked counts as a writer, though it may be another probe.
ProbeFinds(p) ==
    /\ at[p] = "probe"
    /\ reserved # Nobody
    /\ Goes(p, "rest")
    /\ lapses' = IF at[reserved] = "unprobe" THEN lapses \cup {"probe met probe"} ELSE lapses
    /\ UNCHANGED <<table, locktype, pagerState, seen, content, exits>>

Unprobe(p) ==
    /\ at[p] = "unprobe"
    /\ reserved' = Nobody
    /\ Goes(p, "hotdrop")
    /\ UNCHANGED <<pending, exclusive, shared, locktype, pagerState, seen, content, lapses, exits>>

\* Nobody does.  sqlite3OsLock from shared to exclusive, without the pending
\* byte: the shared lock is given back first (also below, with it).
DropShared(p) ==
    /\ at[p] \in {"hotdrop", "xdrop"}
    /\ shared' = shared \ {p}
    /\ locktype' = [locktype EXCEPT ![p] = "pending"]
    /\ Goes(p, IF at[p] = "hotdrop" THEN "hotrange" ELSE "xrange")
    /\ UNCHANGED <<pending, reserved, exclusive, pagerState, seen, content, lapses, exits>>

\* An exclusive lock while another process has just given its own back, and
\* not yet taken the shared one again.
Overtakes(p) ==
    lapses' = IF \E q \in Procs : at[q] = "reread" THEN lapses \cup {"overtaken"} ELSE lapses

HotRange(p) ==
    /\ at[p] = "hotrange"
    /\ RangeFree
    /\ exclusive' = p
    /\ locktype' = [locktype EXCEPT ![p] = "exclusive"]
    /\ pagerState' = [pagerState EXCEPT ![p] = "exclusive"]
    /\ Goes(p, "open")
    /\ Overtakes(p)
    /\ UNCHANGED <<pending, reserved, shared, seen, content, exits>>

\* Without the whole range sqlite3pager_get gives up.
MissHotRange(p) ==
    /\ at[p] = "hotrange"
    /\ ~RangeFree
    /\ UnlockAll(p)
    /\ Goes(p, "rest")
    /\ UNCHANGED <<seen, content, lapses, exits>>

OpenJournal(p) ==
    /\ at[p] = "open"
    /\ journalFile # "none"
    /\ opener = Nobody
    /\ opener' = p
    /\ Goes(p, "playback")
    /\ UNCHANGED <<table, locktype, pagerState, seen, version, torn, journalFile, lapses, exits>>

\* The journal may be gone by now, or open.
MissJournal(p) ==
    /\ at[p] = "open"
    /\ journalFile = "none" \/ opener # Nobody
    /\ UnlockAll(p)
    /\ Goes(p, "rest")
    /\ UNCHANGED <<seen, content, lapses, exits>>

CloseJournal ==
    /\ journalFile' = "none"
    /\ opener' = Nobody

\* Mutant of PlaybackHot: the journal is deleted first, and nothing played back.
PlaybackHotDeletes(p) ==
    /\ at[p] = "playback"
    /\ CloseJournal
    /\ Goes(p, "drop")
    /\ UNCHANGED <<table, locktype, pagerState, seen, version, torn, lapses, exits>>

\* pager_playback: the file is as before, the journal is deleted.
PlaybackHot(p) ==
    /\ at[p] = "playback"
    /\ torn' = (torn /\ journalFile = "empty")
    /\ CloseJournal
    /\ Goes(p, "drop")
    /\ UNCHANGED <<table, locktype, pagerState, seen, version, lapses, exits>>

-----------------------------------------------------------------------------
\* sqlite3pager_begin: the reserved byte, and a new journal.
BeginWriting(p) ==
    /\ at[p] = "rest"
    /\ pagerState[p] = "shared"
    /\ version < MaxCommits
    /\ reserved = Nobody
    /\ reserved' = p
    /\ locktype' = [locktype EXCEPT ![p] = "reserved"]
    /\ pagerState' = [pagerState EXCEPT ![p] = "reserved"]
    /\ Goes(p, "create")
    /\ UNCHANGED <<pending, exclusive, shared, seen, content, lapses, exits>>

CreateJournal(p) ==
    /\ at[p] = "create"
    /\ IF opener = Nobody
       THEN /\ opener' = p
            /\ journalFile' = "empty"
            /\ UNCHANGED <<table, locktype, pagerState>>
       ELSE /\ UnlockAll(p)
            /\ UNCHANGED <<opener, journalFile>>
    /\ Goes(p, "rest")
    /\ UNCHANGED <<seen, version, torn, lapses, exits>>

\* sqlite3pager_sync and the recycling of a page: an exclusive lock.  After an
\* attempt that failed the pending byte is still locked.
WriteOut(p) ==
    /\ at[p] = "rest"
    /\ pagerState[p] = "reserved"
    /\ Goes(p, IF locktype[p] = "reserved" THEN "xpending" ELSE "xdrop")
    /\ UNCHANGED <<table, locktype, pagerState, seen, content, lapses, exits>>

TakeRange(p) ==
    /\ at[p] = "xrange"
    /\ RangeFree
    /\ exclusive' = p
    /\ locktype' = [locktype EXCEPT ![p] = "exclusive"]
    /\ pagerState' = [pagerState EXCEPT ![p] = "exclusive"]
    /\ Goes(p, "write")
    /\ Overtakes(p)
    /\ UNCHANGED <<pending, reserved, shared, seen, content, exits>>

\* Another process reads: the transaction stays reserved, the lock pending,
\* and the shared lock is gone.
MissRange(p) ==
    /\ at[p] = "xrange"
    /\ ~RangeFree
    /\ Goes(p, "rest")
    /\ UNCHANGED <<table, locktype, pagerState, seen, content, lapses, exits>>

\* The journal is on the disk, and the file is written, page by page.
WritePages(p) ==
    /\ at[p] = "write"
    /\ journalFile' = "full"
    /\ torn' = TRUE
    /\ Goes(p, "finish")
    /\ UNCHANGED <<table, locktype, pagerState, seen, version, opener, lapses, exits>>

\* Committed, or rolled back with the journal.
Finish(p) ==
    /\ at[p] = "finish"
    /\ torn' = FALSE
    /\ version' \in {version, version + 1}
    /\ CloseJournal
    /\ Goes(p, "drop")
    /\ UNCHANGED <<table, locktype, pagerState, seen, lapses, exits>>

\* A rollback before the file has been written.
RollbackUnwritten(p) ==
    /\ at[p] = "rest"
    /\ pagerState[p] = "reserved"
    /\ CloseJournal
    /\ lapses' = IF p \in shared THEN lapses ELSE lapses \cup {"lock lost"}
    /\ Goes(p, "release")
    /\ UNCHANGED <<table, locktype, pagerState, seen, version, torn, exits>>

-----------------------------------------------------------------------------
\* sqlite3OsUnlock to a shared lock: an exclusive one is given back and a
\* shared one taken again, which "should never" fail,
DropRange(p) ==
    /\ at[p] = "drop"
    /\ exclusive' = Nobody
    /\ Goes(p, "reread")
    /\ UNCHANGED <<pending, reserved, shared, locktype, pagerState, seen, content, lapses, exits>>

RetakeShared(p) ==
    /\ at[p] = "reread"
    /\ IF exclusive = Nobody
       THEN /\ shared' = shared \cup {p}
            /\ UNCHANGED lapses
       ELSE /\ lapses' = lapses \cup {"lock lost"}
            /\ UNCHANGED shared
    /\ seen' = [seen EXCEPT ![p] = version]
    /\ Goes(p, "release")
    /\ UNCHANGED <<pending, reserved, exclusive, locktype, pagerState, content, exits>>

\* Mutant of UnlockBytes: pager_unwritelock does not reset Pager.state.
UnlockBytesOnly(p) ==
    /\ at[p] = "release"
    /\ reserved' = Freed(reserved, p)
    /\ pending' = Freed(pending, p)
    /\ locktype' = [locktype EXCEPT ![p] = "shared"]
    /\ Goes(p, "rest")
    /\ UNCHANGED <<exclusive, shared, pagerState, seen, content, lapses, exits>>

\* ... then the bytes.
UnlockBytes(p) ==
    /\ at[p] = "release"
    /\ reserved' = Freed(reserved, p)
    /\ pending' = Freed(pending, p)
    /\ locktype' = [locktype EXCEPT ![p] = "shared"]
    /\ pagerState' = [pagerState EXCEPT ![p] = "shared"]
    /\ Goes(p, "rest")
    /\ UNCHANGED <<exclusive, shared, seen, content, lapses, exits>>

\* The last page is given back.
Reset(p) ==
    /\ at[p] = "rest"
    /\ pagerState[p] = "shared"
    /\ UnlockAll(p)
    /\ UNCHANGED <<at, seen, content, lapses, exits>>

\* The process ends and another one takes its place.
ProcEnds(p) ==
    /\ exits < MaxExits
    /\ exits' = exits + 1
    /\ UnlockAll(p)
    /\ opener' = Freed(opener, p)
    /\ Goes(p, "rest")
    /\ UNCHANGED <<seen, version, torn, journalFile, lapses>>

SharedFileNext ==
    \E p \in Procs :
        \/ TakePending(p) \/ MissPending(p) \/ TakeShared(p) \/ MissShared(p)
        \/ DropPending(p) \/ GiveUpShared(p)
        \/ GetFirst(p) \/ Look(p) \/ Probe(p) \/ ProbeFinds(p) \/ Unprobe(p)
        \/ DropShared(p) \/ HotRange(p) \/ MissHotRange(p)
        \/ OpenJournal(p) \/ MissJournal(p) \/ PlaybackHot(p)
        \/ BeginWriting(p) \/ CreateJournal(p) \/ WriteOut(p) \/ TakeRange(p) \/ MissRange(p)
        \/ WritePages(p) \/ Finish(p) \/ RollbackUnwritten(p)
        \/ DropRange(p) \/ RetakeShared(p) \/ UnlockBytes(p) \/ Reset(p)
        \/ ProcEnds(p)

SharedFileSpec == SharedFileInit /\ [][SharedFileNext]_sharedFileVars

-----------------------------------------------------------------------------
Reads(p) == at[p] = "rest" /\ pagerState[p] \in {"shared", "reserved"}

\* Whoever reads finds one version of the database, from the first page to
\* the last: nobody writes meanwhile.
Isolated == \A p \in Procs : Reads(p) => ~torn /\ seen[p] = version

\* A file that is half written has a journal that restores it.
Repairable == torn => journalFile = "full"

\* Both hold as long as none of three things happens: a process rolls back
\* after it has lost its shared lock to an exclusive one that it did not get;
\* two processes ask at the same time whether a journal has an owner; one
\* process writes in the moment in which another changes its locks.
IsolatedOtherwise == lapses = {} => Isolated
RepairableOtherwise == lapses = {} => Repairable

=============================================================================
