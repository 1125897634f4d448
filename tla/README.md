# A verification of NWNX2 for Windows

NWNX2 extends the dedicated server of Neverwinter Nights. A launcher
(`src/src/NWNX2`) starts `nwserver.exe`, injects `nwnx.dll` into it and watches
it; the library (`src/src/NWNXdll`) patches two functions of the server, loads
plugins and hands them the requests of scripts; the plugins do the rest. This
directory has TLA+ models of these parts, TLC configurations that check them,
and proofs that TLAPS checks. Paths below are relative to `src/src`.

## Inventory

| component | state | operations | talks to |
|---|---|---|---|
| launcher, server process (`NWNX2/nwnserver.cpp`) | one global `PROCESS_INFORMATION pi` | `StartAndInject`, `CheckProcessActive`, `KillServerProcess` | called by three kinds of threads |
| launcher, watchdogs (`watchdogprocess.cpp`, `watchdoggamespy.cpp`, `watchdog.h`, `udp.cpp`) | `threadRunning`, `doSleep`, `interval`, `retries`, local `watchdogState` | two endless loops, `StartThread`, `StopThread` | the dialog by posted messages, the server by UDP |
| launcher, dialog (`NWNX2Dlg.cpp`) | check boxes, intervals, counters, message queue | message handlers | sets `doSleep` of the watchdogs |
| launcher, log rotation (`nwnserver.cpp`) | directories on disk | `GetLogDir`, `RotateLogs` | every launch |
| launcher, configuration (`NWNX2.cpp`) | options | parsing, once | fields of the dialog |
| `nwnx.dll` (`NWNXdll.cpp`, `hook_funcs.cpp`, `HashTable.cpp`, `NWNXBase.cpp`) | patched code, bridge pointers, table of plugins | Init thread; `PayLoad`, `ObjectPayLoad` | server thread, plugins |
| ODBC2 plugin (`ODBC2/*.cpp`) | connection, statement or result set, `firstFetch`, `rc`, `scorcoSQL` | `EXEC`, `FETCH`, `SETSCORCOSQL`, SCO, RCO | SQLite, MySQL, ODBC |
| profiler plugin (`Profiler/HookRunScript.cpp`, `hash.cpp`) | `iCallDepth`, `scriptName[]`, `liLast[]`, `emptyScript`, `scriptHash` | hooks around three functions, `StopTimer`, `FlushStatistics` | the server's call stack |
| chat plugin (`NWNX_Chat`) | `scriptRun`, `supressMsg`, `lastMsg`, flags | hook of the chat function, `TEXT`, `SUPRESS`, `SPEAK` and other requests | runs scripts, which send messages |
| SQLite, pager (`ODBC2/sqlite/pager.c`) | page cache, journal, statement journal | get, write, begin, commit, rollback, statements | the disk, the B-trees |
| SQLite, locks (`os_win.c`, callers in `pager.c`) | three lock bytes of the file, `OsFile.locktype`, `Pager.state` | `sqlite3OsLock`, `sqlite3OsUnlock`, `sqlite3OsCheckReservedLock` | other processes with the database |
| SQLite, free pages (`btree.c`, `pager.c`) | list of trunks and leaves in the file | `allocatePage`, `freePage`, `dont_write`, `dont_rollback` | the pager |
| SQLite, the rest; MySQL client | | parser, compiler, virtual machine, network | |
| time plugin (`Time`) | map of timers | `START`, `STOP`, `QUERY` | scripts |
| connect plugin (`NWNX_Connect`) | none of its own | one network message | server |
| functions plugin (`NWNX_Functions`) | fields of server objects, effects iterator | some 100 requests | server |

What is hard here is concurrency (three kinds of launcher threads and a GUI
thread; the server's thread beside the Init thread), requests and messages that
come in an order nobody planned, launches that fail half way, and small pieces
of state (`firstFetch`, `rc`, `emptyScript`, `watchdogState`) that must agree
with something larger. The copy of SQLite (an early version 3) that is compiled
into the ODBC2 plugin is third-party code, but it holds the players' data, and
the launcher may at any moment kill a server that does not answer: so the parts
of it that decide whether the data survives are modelled too. The list of hazards, each at its
line and with the properties that cover it, is in `PROJECT.json`.

## Modules

| module | models | notes |
|---|---|---|
| `ServerProcess` | `nwnserver.cpp` | processes numbered in order of creation; `pi` is the last one |
| `Watchdogs` | threads, dialog, UDP, user, failures | EXTENDS `ServerProcess` |
| `PluginMap` | abstract: a registry keyed by `Key` | specification of the next |
| `Plugins` | `nwnx.dll` | implements `PluginMap` with the hash as key |
| `ResultSet` | abstract: a cursor over rows | specification of `Odbc2` for one result set |
| `CDB` | what the three database classes share, and the database | EXTENDED by the next three |
| `CSQLite`, `CMySQL`, `CODBC` | one class each, one operator per method | |
| `Odbc2` | plugin: life cycle and requests | composes the three |
| `Meter` | abstract: nested calls, some charged with name and time | specification of `Profiler` |
| `Profiler` | profiler plugin | implements `Meter` until it is lost |
| `Chat` | chat plugin | |
| `LogRotation` | `RotateLogs` before every launch | |
| `Store` | abstract: pages changed by transactions | specification of the next |
| `Pager` | SQLite's pager, one connection | implements `Store`, with three exceptions |
| `SharedFile` | SQLite's file locks, many processes | |
| `FreePages` | SQLite's list of free pages, cache and journal | |
| `MC*` | instances for TLC | constants; `MCParts` also puts five modules side by side |
| `*Proofs` | theorems | `PagesProofs` is about `Pager` and `Store`, `SqliteProofs` about `SharedFile` and `FreePages` |

### Watchdogs

`pc[t]` is the statement a thread is about to execute; one step touches one
piece of shared state, so two threads interleave at every `PostMessage`,
`CheckProcessActive`, `CreateProcessW`, injection and `ResumeThread`. Every
failure of a launch, also a process that was not created and a `ResumeThread`
that finds nothing to resume, leads to `"box"`: `MessageBoxA` keeps the
launching thread until the user closes it (`CloseBox`). `queue`
is the dialog's message queue, `Handle` its handlers, `asleep` the `doSleep`
flags. The user's edits (`ToggleWatchdog`, `ChangeInterval`, `ChangeRetries`)
run on the GUI thread. `Sleep` is a step that takes any time. Abstractions:

* The server is a state of a process: suspended, loading, ready, hung, dead.
  `TerminateProcess` takes effect at once.
* `retries` stops one above `GamespyRetries`, the largest number it is
  compared with. Negative numbers of retries are not modelled.
* A stopped thread may still run when a new one is started; how many can exist
  at once is the number of thread names in the configuration.
* With interval 0, `Sleep` gets a number near 2^32; the thread is `oversleep`
  and nothing is said of what it does 49.7 days later.
* `RestartDelay` is read from the configuration and used nowhere (the
  documentation describes it), so it is in no model.

Two premises are constants: `LaunchWithin10s` (the first launch is over, or
shows its message box, when the watchdogs' initial 10 seconds are over) and `PromptReplies` (a ready server
answers within `UDP_WAIT`).

### Plugins

`at` is where the Init thread is, `hook[h]` how far a patch has got, `call` the
hook the server's thread is in. The patch is written in several steps, so a
request may meet half-patched code, a jump without its bridge, or a hook
without a table. `Slot` is the hash of a name modulo the table size; the
configurations use the places 198, 113, 113 and 30 that `CHashTable::Hash`
gives ODBC, CHAT, SYSTEM and TIME for 211 places. `last` remembers whom a
request named and who served it.

### ODBC2

`set` is the statement or result set, `work` what the session sees, `disk` what
survives a crash. SQLite steps to the first row in `Execute` (`firstFetch`) and
wraps everything in an implicit transaction; MySQL and ODBC commit each
statement. SQLite refuses to end a transaction while a statement is at a row
(`SqliteFails`), so every method closes the last one first (`Finalized`), and
`Disconnect` does before its COMMIT. A row is an opaque value; a blank row,
which the code cannot tell from the end, is not among them. `hooked` is the
option `hookscorco`: without it `scorcoSQL` is NULL, and `SETSCORCOSQL` ends the
server. With it `scorcoSQL` is `Unset` until the first `SETSCORCOSQL`, memory
that nobody has written: a store uses it as the format of `sprintf`, a read as a
statement, and either is refused or ends the server (`UseUnset`). `opener` is
which call opened the result set that scripts now read; a read with the other
one (FETCH after RCO or the reverse) is a `MixedRead`.

### Profiler

`stack` is the server's own stack of hooked calls, which may nest in any way;
`depth`, `names`, `last` and `emptyScript` are the profiler's picture of it.
When the depth is -1 `StopTimer` reads memory before its arrays: the model lets
it charge any entry any time, or none. `lost` is set when the maximum depth is
logged, and when a search for a creature without a tag and a timed call are
inside of each other: `emptyScript` is one flag for the whole stack, so the
outer call is then not charged, or the inner one is stopped twice.

### Chat

`ChatHookProc` gets every message of the server before the server's own
function does. `stack` is the nesting of scripts: the message that a chat
script runs for, or 0 for any other script. A script may send messages
(`Speak`), which come through the same hook before the call returns; while
`scriptRun` is set they pass without a script of their own. `fate` says what
became of each message, `asked` which of them their own scripts wanted
suppressed; both are only there for the properties. Functions of the server
that `HookFunctions` did not find are NULL pointers (`found`), a call through
one ends the server (`up`), and so does a text that overflows a script's
buffer in `strcpy_s`. The text itself, the log and the list of players are left
out.

### LogRotation

One step per call of Windows: the deletion of directory 9 (`Oldest`), each move
from a number to the next, from 99 (`Aged`) down to 1, the creation of 1 and
the move of the log into it, then the launch, in which `nwnx.dll` opens its log
for writing and so empties it. Two threads may do this at once, the launcher
may end half way, a directory may be in use and a launch may fail; `upsets`
remembers which of these happened. One log stands for the four files, which are
moved alike. `GetLogDir`, which picks `logs.0`, `logs.1` and so on, is left out.

### Pager and Store

`Store` says what a pager promises: a transaction changes pages and becomes
permanent as a whole or not at all, a statement inside of it can be taken back,
and the end of the process or of the power is a rollback. `Pager` has the code:
`cache` with the flags of each `PgHdr`, `journal` with the header and the
records as far as the operating system has them, `settled` what of it the disk
has, `stale` the older contents that the disk may still have of a page,
`stmt` the statement journal. A commit is a sequence of steps (`job`): flush
the records, write their number, flush again, write the dirty pages, flush the
file, delete the journal. The process may end between any two of them, and a
page may have to leave the full cache in the middle of a transaction
(`Recycle`), which does the same for one page. The refinement mapping is
`Abstract`: what the next process will find (`OnDisk`, after the playback of a
journal), what the connection sees (`InMemory`), what a rollback of the
statement would give (`AtStart`).

### SharedFile

Each process goes through the pager's calls with one call of `LockFile` or
`UnlockFile` per step. `at` is where it is; `pending`, `reserved`, `exclusive`
and `shared` are the owners of the lock bytes as Windows has them, `locktype`
and `pagerState` what the process believes. The contents of the file are
reduced to a version number, `torn` (half written) and the journal. A process
may end at any step and start again. This is Windows NT; the single random byte
of the shared range that Windows 95 locks is not modelled.

### FreePages

Contents of pages matter here: a page has a row, or it is a trunk with its
leaves; page 1 has the first trunk and the number of free pages. `pager` is the
`Pager` structure: the cache with the flags `dirty`, `inJournal`, `needSync`
and `alwaysRollback`, the journal, how many of its records the headers count
(`counted`), the statement journal. A page with a new record waits until a
flush has counted it (`Synced`), and `pager_playback` restores what is counted
and nothing else (`Playable`).
`sqlite3pager_dont_write` lets a free page stay as it is in the file,
`sqlite3pager_dont_rollback` leaves its old contents out of the journal;
`MakeRoom` lets any page leave the cache, with a flush if it waits. The end of
the process or of the power is left to `Pager`, which has pages without
contents that refer to each other.

The other variables are only there for the properties. `used` is what the layer
above has put into the pages it owns, `trunks` the trunks that the list should
have, the first one last; `Book` is both, and `Holding` the pages whose contents
it needs: page 1, the rows, the trunks. `atBegin` and `atStmt` are the book when
the transaction and the statement began, which their rollbacks should bring
back. `dropped` and `inStmt` are the pages that `dont_write` has made clean in
the transaction and in the statement, `early` those that the rollback of a
statement has written to the file before their records were counted, `twice` those that were allocated while in
use, `forgotten` what a rollback has forgotten.

## Runs

All runs finish within four minutes. Deadlock is checked except where the
system may stop: the launcher and `nwnx.dll` reach bounds or a crash, the
profiler's clock ends, the parts of `parts` reach their bounds.

| run | checks | result |
|---|---|---|
| `watchdogs_solo` | `AliveIsTracked`, `ProcessRestarts`, `GamespyRestarts` | hold |
| `watchdogs_pair` | `TypeOK`, `SleepMirrorsWaiting` | hold |
| `watchdogs_restarting` | `RebootsUnresponsive` | violated |
| `watchdogs_asleep` | `SomeWatchdogOnDuty` | violated |
| `watchdogs_launch_fails` | `RestartsForSure` | violated |
| `plugins` | `TypeOK`, `SafeOnceActive`, `ImplementsMap`, `GetsActive` | hold |
| `plugins_gives_up` | `GivesUp` | violated |
| `plugins_collide` | `ServedByNamesake` | violated |
| `odbc2` | `TypeOK`, `StopKeepsAll`, `RowsInOrder`, `SafeWhenConnected` | hold |
| `odbc2_store` | `StoresReliable` | violated |
| `profiler` | `TypeOK`, `DepthIsNesting`, `ChargesRight` | hold |
| `parts`, chat | `ChatTypeOK`, `FlagMirrorsStack`, `OwnVerdict`, `OwnText` | hold |
| `parts`, logs | `RotationTypeOK`, `NumberedByAge`, `LossExplained` | hold |
| `parts`, locks | `SharedFileTypeOK`, `IsolatedOtherwise`, `RepairableOtherwise` | hold |
| `parts`, free pages | `FreePagesTypeOK`, `IntactOtherwise`, `ListSoundOtherwise`, `OneOwnerOtherwise` | hold |
| `parts`, pager | `PagerTypeOK`, `CleanIsStoredOtherwise`, `AtomicOtherwise` | hold |

The run `parts` chooses one of five independent modules at the start and leaves
the others as they are, so the five are checked as if each had a run of its
own. Of the locks and of the free pages nothing is claimed after the first
known lapse, so a behaviour ends there.

What some properties leave to be claimed where the code gives in:

* `ProcessRestarts` promises a server, or a launch that waits for somebody to
  close its message box (`Asking`), or another failure, or the bound on launches.
  On a machine without a user the box is the end.
* `SafeWhenConnected` names what ends the server although the plugin is
  connected: an SCO or RCO before the first `SETSCORCOSQL`, a `SETSCORCOSQL`
  with `hookscorco = false` (`scorco = Unset` in both), and an RCO in FETCHMODE
  of a script that was not given an object by the last read, or after somebody's
  `EXEC` (`opener # "rco"`; `Cmysql.cpp:179` does not test `result`). What it
  promises is that nobody else is hit, whatever stores, refused statements and
  reads come between; a store that released MySQL's result would break it.
* `RowsInOrder` leaves open what a mixed read delivers. An RCO in FETCHMODE
  after an EXEC through SQLite skips the first row (`sqlite.cpp:223`), and all
  scripts share the one result set.
* The properties whose names end in `Otherwise`: see below.

What the violations show:

* A server that fails before its first answer after a gamespy restart is left
  alone: `WATCHDOG_STATE_RESTARTING` ends only with an answer.
* The two watchdogs can put each other to sleep for good, because the process
  watchdog does not take its `CHECKING` back after a restart.
* An injection that fails leaves a suspended process that counts as active.
* The search for the master server does not give up: the clock is read before
  the loop.
* Two plugins with the same place in the table: one of them is never served,
  and the other gets its requests.
* After one failed query through ODBC no object is stored until some query
  succeeds.

Smaller disagreements with the documentation, without a run: `RestartDelay` is
unused (`NWNX2.cpp:118`), and the server is restarted after one more missing
answer than `GamespyRetries` says (`watchdoggamespy.cpp:104`). Directory 9 has
the oldest logs (`Docs/NWNX2.html:188`) only as long as no rotation is disturbed:
the loop says "1-8" in its comment and moves 1 to 99 (`nwnserver.cpp:107`), so
that after two rotations at once there may be a directory 10 that nobody
deletes.

### What SQLite does not keep

The properties whose names end in `Otherwise` are the promise less the cases in
which this version of SQLite breaks it. The modules also state the promise in
full; TLC refutes each of these when it is given as a property instead.

* `Pager!Atomic`. The rollback of a statement, when pages had to leave the cache
  before, writes the old contents to the database file without a flush of the
  journal (`pager.c:845-913`), although "it is not safe to modify the original
  database file until after the journal has been synced" (`pager.c:1836-1838`).
  As long as no header counts their records the transaction cannot be undone,
  neither by a `ROLLBACK` nor after the end of the process or of the power,
  since `pager_playback` reads counted records only. A page that a cache
  left behind the file (see `CleanIsStored`) has otherwise than the file gets
  into the journal as it is in the cache, with the same result when the power
  fails before that record is counted. `rash` has the pages concerned.
* `Pager!Durable`. `pager_playback` deletes the journal with the restored file
  not yet flushed (`pager.c:783-798`, called at its end); a power failure soon
  afterwards brings the half written pages back without their journal (`loose`).
* `Pager!CleanIsStored`. After a rollback with open cursors `pager_playback`
  should read changed pages again (`pager_reload_cache`, comment at
  `pager.c:1190-1193`), but the call cannot be reached: the loop before it ends
  only with `goto end_playback`. Pages then stay in the cache with contents
  that the file does not have (`unread`). The same comes from a statement
  whose rollback makes the file shorter: `pager_stmt_playback` (`pager.c:1234`)
  restores pages of the old size, and leaves those beyond it in the cache. If a
  page further out is written later, the file grows over them and has zeros
  there, and after the commit `dbSize` is taken from the file
  (`pager.c:2815-2824`, `pager.c:1585`), so that the next transaction reads their
  old contents from the cache.
* `SharedFile!Repairable` and `SharedFile!Isolated`. `sqlite3OsCheckReservedLock`
  asks whether the reserved byte is locked by locking it (`os_win.c:555`): two
  processes that look for a hot journal at once each take the other for a
  writer and read the half written file ("probe met probe"). A process that did
  not get its exclusive lock has already given its shared lock back and keeps
  reading without one ("lock lost", `os_win.c:512`), as does one overtaken
  between the steps of a downgrade, which "should never happen"
  (`os_win.c:584-588`, "overtaken").
* `FreePages!Intact`, `OnFile`, `ListSound`, `OneOwner`. `forgotten` says which
  rollback has done it. "not dirty": a page that `dont_write` made clean loses
  a change of an earlier statement when the statement that freed it is rolled
  back (`pager.c:2715`, against "the effect of that one statement can be rolled
  back", `btree.c:1460-1462`): the old contents go to the cache, the file keeps
  older ones, and nothing marks the page dirty again. "cache stale": the same in
  the rollback of a transaction that has not yet written the file, if the page
  stays in the cache; only dirty pages are read again. "not counted": a ROLLBACK
  plays back the records that a header counts, and the call of
  `pager_reload_cache` for the rest cannot be reached (`pager.c:1141-1195`). That
  does no harm to a page that has left the cache, because it could not leave
  before its record was counted, nor to one that is read again; but a page that
  the rollback of a statement has written to the file, or that stays in the cache
  because a cursor is open, keeps its changes. In all three cases it
  must be a page whose contents mattered when the transaction or the statement
  began (`Holding`). "not new": the pages that a rolled-back statement appended stay
  in the cache with their flag `inJournal`, so the next `allocatePage` does not
  make the file longer and the one after that returns the same page again.

Two more, seen while modelling: `PAGER_ERR_FULL` is never cleared, though the
comment at `pager.c:2493-2499` says a rollback does it, and `dont_write` uses
its page before it tests it for NULL (`pager.c:2702`).

### Bounds

The largest run is `parts`, with 2.6 million states, most of them of the free
pages and of the pager. All watchdog runs: one thread name for each watchdog, and one allowed retry, so
that a first missed answer is forgiven and a second is not. `watchdogs_solo`
has six launches, two failures of any kind (crash, hang, failed launch) and two
datagrams in each socket: a failure during the repair of another, and a stale
answer beside a fresh one. Liveness is claimed up to the last launch
(`Exhausted`). `watchdogs_pair` has two operations of the user, two messages in
the queue, two launches and a first launch of any length, without failures (the
theorem `MirrorCorrect` covers them); a server that loads slowly is enough to
make both watchdogs launch. The violations need one failure with both watchdogs
(`watchdogs_asleep`) and two with one. Plugins: four names, three files, two of
which share a place.
ODBC2: result sets of none, one and two rows (first, next, past the end), two
items, all four values of the source, with and without hooks. Profiler: a depth of 2 and a stack of 3,
so that the maximum is passed and the returns run ahead of the depth; two
names, three timed calls, a clock of 3, statistics at every second tick, times
modulo 2.

In `parts`: three messages of six kinds (one from outside, one from its script,
one after both); two rotations at once, four sessions, `Oldest` 2 and `Aged` 3,
so that logs reach the oldest directory, are deleted from it and can pass it;
three processes on one database with two commits and two ends of a process (a
writer that ends, two that look for its journal); four pages of which three
exist, trunks of one leaf, two rows up to renaming, four calls that change
pages (a page freed as a trunk, one as a leaf, both used again); a pager with
two values, two pages that may grow to four, a cache of three, four writes and
one crash or power failure. Two pages, a cache of two, seven writes and two
failures, one during the repair of the other, are needed to reach all the cases
of `AtomicOtherwise`; that takes TLC far longer, and the theorem `AtomicBut` covers
it.

### Fairness

`Watchdogs`: weak fairness for each thread, the GUI thread's queue, a loading
server and an answering one: Windows schedules threads, and the dialog's
message loop never blocks, also while a box is open, which belongs to the thread
that launches. No fairness for users and failures, and so none for `CloseBox`: a
box may stay open for ever. `Plugins`: weak
fairness for the Init thread. The other modules run when a script, a user or
another process does something, so they have none and no liveness is claimed.

## Proofs

All theorems hold for every value of the constants that the modules' ASSUMEs
allow. `tlapm` checks them from nothing.

| theorem | says | besides, assumes |
|---|---|---|
| `WatchdogsProofs!TypeCorrect` | `[]TypeOK` | |
| `WatchdogsProofs!MirrorCorrect` | `[]SleepMirrorsWaiting` | one gamespy thread |
| `WatchdogsProofs!AliveTracked` | `[]AliveIsTracked` | one watchdog, prompt first launch, no edits |
| `PluginsProofs!PluginsTypeCorrect` | `[]TypeOK` | |
| `PluginsProofs!SafeWhenActive` | `SafeOnceActive` | |
| `PluginsProofs!TableImplementsMap` | `ImplementsMap` | both functions are found |
| `PluginsProofs!DistinctPlacesServe` | `[]ServedByNamesake` | no two names share a place |
| `Odbc2Proofs!Odbc2TypeCorrect` | `[]TypeOK` | |
| `Odbc2Proofs!StopKeeps` | `StopKeepsAll` | |
| `Odbc2Proofs!ConnectedIsSafe` | `SafeWhenConnected` | |
| `Odbc2Proofs!RowsArriveInOrder` | `RowsInOrder` | |
| `ProfilerProofs!ProfilerTypeCorrect` | `[]TypeOK` | |
| `ProfilerProofs!DepthFollows` | `[]DepthIsNesting` | |
| `ProfilerProofs!ChargesAreRight` | `ChargesRight` | |
| `ChatProofs!ChatTypeCorrect` | `[]ChatTypeOK` | |
| `ChatProofs!FlagMirrorsStackAlways` | `[]FlagMirrorsStack` | |
| `ChatProofs!OwnVerdictAlways` | `[]OwnVerdict` | |
| `ChatProofs!OwnTextAlways` | `[]OwnText` | |
| `LogRotationProofs!RotationTypeCorrect` | `[]RotationTypeOK` | |
| `LogRotationProofs!NumberedByAgeAlways` | `[]NumberedByAge` | |
| `LogRotationProofs!LossExplainedAlways` | `LossExplained` | |
| `SqliteProofs!SharedFileTypeCorrect` | `[]SharedFileTypeOK` | |
| `SqliteProofs!IsolatedAlways` | `[]IsolatedOtherwise` | |
| `SqliteProofs!RepairableAlways` | `[]RepairableOtherwise` | |
| `SqliteProofs!FreePagesTypeCorrect` | `[](forgotten = {} => FreePagesTypeOK)` | |
| `SqliteProofs!RowsSurvive` | `[]IntactOtherwise` | |
| `SqliteProofs!ListStaysSound` | `[]ListSoundOtherwise` | |
| `SqliteProofs!PagesHaveOneOwner` | `[]OneOwnerOtherwise` | |
| `SqliteProofs!CommittedOnFile` | `[](forgotten = {} => OnFile)` | |
| `PagesProofs!PagerTypeCorrect` | `[]PagerTypeOK` | |
| `PagesProofs!CleanStored` | `[]CleanIsStoredOtherwise` | |
| `PagesProofs!AtomicStarts` | `PagerInit => Abstract!StoreInit` | |
| `PagesProofs!AtomicBut` | `AtomicOtherwise` | |

Along which argument:

* `MirrorCorrect`. The flag lags behind the gamespy watchdog by the messages in
  the queue. The invariant speaks of the last gamespy message in the queue, or
  of the flag if there is none; posting makes a new last message, and handling
  moves the truth of the last one into the flag. A thread that was stopped
  still posts `NONE` before it ends, which is why the invariant follows threads
  and not `threadRunning`.
* `AliveTracked`. A launch replaces `pi`, so the process that `pi` names must
  be dead whenever a thread is about to create another: the process watchdog
  has seen that, the gamespy watchdog has seen or done it, and with one thread
  and no user nobody launches in between.
* `SafeWhenActive`. When the start has passed the hooks no found function is
  left half patched, and the table exists from there on; a call that is in a
  hook finds its bridge then.
* `TableImplementsMap`, `DistinctPlacesServe`. Who sits in a place has that
  place as its hash, and never leaves it.
* `StopKeeps`, `ConnectedIsSafe`, `RowsArriveInOrder` rest on one
  invariant `IInv`: outside a transaction `disk = work`; only SQLite has one;
  `set`, `firstFetch` and `opener` fit together (after an RCO that gave an
  object MySQL has a result; `firstFetch` without a current row means there is
  none to skip).
* `DepthFollows`. The depth is the number of timed calls on the stack less one.
  This is not inductive: the return of a search without a tag must not stop a
  timer. So the invariant adds that `emptyScript` is set while such a search is
  on the stack and that there is no timed call then.
* `ChargesAreRight`. Besides, the i-th timed call of the server's stack has its
  name in `names[i-1]` and its start in `last[i-1]` (`Matching`): a call or a
  return above it changes neither its rank nor that place, so what `StopTimer`
  reads when it returns is its own. `Meter` sees the stack call by call, with
  those that are not timed as free ones.
* `NumberedByAgeAlways`, `LossExplainedAlways`. Without a directory in use or a
  second rotation (`Calm`) the number above the one that the loop has come to
  is free (`Room`), so every directory can move, also after a launcher that
  ended half way has left gaps; directory 1 is then new and empty when the log
  moves into it, and a launch finds none to overwrite. If nothing at all has
  happened, the directories above the turn are one older than those below
  (`Shifted`).
* `FlagMirrorsStackAlways`, `OwnVerdictAlways`, `OwnTextAlways`. While a chat
  script runs, `lastMsg` is its message, that message is still open, and
  `supressMsg` is set exactly if the script asked for it (`Current`). A nested
  message leaves all three alone because the hook tests `scriptRun` before it
  calls `Chat`, and nothing runs on top of a chat script, so its return finds
  the flags as it left them.
* `IsolatedAlways`, `RepairableAlways`. The lock table, `OsFile.locktype` and
  `Pager.state` are each determined by the place where a process is (`Table`,
  `LockAt`, `StateAt`). On top of that, as long as `lapses` is empty: who reads
  has a lock that keeps writers away and has seen the version in the file
  (`Fresh`); a half written file has its full journal, and its writer is at it
  or everybody else still has to look for a journal (`TornSafe`). When the
  writer ends, the step from the one to the other needs that it was alone,
  which the lock table and `Fresh` give (lemma `AloneQuiet`). The theorems are
  for any number of processes; TLC has three.
* `PagerTypeCorrect`, `CleanStored`. The first invariant, `PagerInv`, says what
  there is in each state of the pager and for each thing it is doing (`Places`),
  what is in the cache then (`Present`), how the sizes of the file, the database,
  the journal and the statement are ordered (`Sizes`), that a transaction without
  a change has none of them (`Unchanged`), which pages are dirty (`Flags`): as
  long as only the reserved lock is held, every page with a record is in the
  cache and dirty, which is why a rollback then needs no playback; and that what
  left the cache is in the file (`Kept`).
* `AtomicBut`. The refinement, for any number of pages, any size of the cache and
  any number of crashes and power failures. Every action is a step of `Store` or
  a stutter: a change writes one page, the deletion of the journal keeps the
  transaction, the undoing of a change, a crash or a power failure forgets it,
  and all the flushing, recycling and playing back in between is not seen. For
  this, what the journal would restore must not change while the file does.
  `Records` says that no page has two different records. `Flushed` relates the
  flags to the disk: a page whose record no header counts yet is in the cache
  and marked `needSync`, so it does not get written. `Original`: those pages the
  file still has as their record does. `Certain`: each page of the
  original size is one that every header that may be on the disk brings back
  (`Protected`), or one of which the disk surely has the right contents
  (`Untouched`). A power failure picks any of the headers and any older contents
  of pages, and then the one or the other decides. `PagerIInv` is the
  conjunction of all these.
* `RowsSurvive`, `ListStaysSound`, `PagesHaveOneOwner`, `CommittedOnFile`. None of
  these is inductive, because a rollback brings back what the journals
  have, whatever that is. `FreePagesInv` (as long as `forgotten` is empty, `Kept`) adds:
  there are contents `old` and `mid` which have the rows and the list of
  `atBegin` and `atStmt` (`Remembered`); journal, file and cache still have
  `old` in each page that the book needed when the transaction began
  (`TransKept`), and the statement journal, what the journal got since, file and
  cache have `mid` likewise (`StmtKept`); a page whose record is not counted yet
  waits for that and has `old` in the file, unless it is in `early` (`WaitKept`),
  so that a ROLLBACK which does not play its record back loses nothing; a page that is needed now and is not
  dirty is in the file as in the cache (`NowKept`). The contents of the other
  pages are nobody's, so `dont_write` and `dont_rollback` may lose them. This
  would break when such a page is used again: `Flagged` says that a page which is
  free now but was needed at one of the two beginnings has `alwaysRollback` set,
  on the page or, once it has left the cache, on the pager, so `dont_rollback`
  leaves it to the journal. `Marks` and `StmtMarks` tie the flags and bit maps to
  the records, `Sizes` the sizes of file and database to each other. The list
  itself is the chain of `trunks`, and four lemmas say that it stays one:
  `PushTrunk`, `PushLeaf`, `PopTrunk`, `PopLeaf`. The contents `old` and `mid`
  exist only in the proof, so TLC checks the properties and not `FreePagesInv`.
  The theorems are for any number of pages, any capacity of a trunk
  and any number of calls; that the type is right, too, is claimed only up to the
  first lapse, because later the list can lead anywhere.

Only model-checked: liveness (`ProcessRestarts`, `GamespyRestarts`,
`GetsActive`), which is beyond the prover. Every invariant and every action
property that a passing run checks has its theorem.

## Not modelled

* Of the launcher: `GetLogDir`, painting, parsing of options and of `nwnx.ini`.
* Of `nwnx.dll`: signature searches, the bytes of the bridge, logging, the end
  of the process (`DLL_PROCESS_DETACH`) beyond `OnRelease`, allocation
  failures, the redirection of the master server (it rewrites addresses of
  single datagrams).
* Of the ODBC2 plugin: how it reads `SQLITE_BUSY`.
* The time plugin is a map from names to start times, the connect plugin builds
  one message, the functions plugin reads and writes single fields of server
  objects. They run on the server's one thread, and what can go wrong in them a
  unit test would show. Some of it was seen in passing: `RemoveFeat` deletes
  from the list it does not search (`CNssFeats.cpp:75`, `:86`),
  `RemoveKnownSpell` and `ReplaceKnownSpell` read `sp_level` before the loop that
  sets it (`CNssSpells.cpp:96`, `:164`), and a mask of 24 is compared with 2 in
  `GetNextAllEffect` (`CNssEffects.cpp:171`).
* Of SQLite's pager: master journals, databases in memory, temporary files, the
  synchronous modes NORMAL and OFF, VACUUM, errors of reading, of memory and of
  writing the database file (a journal that cannot be written is in `Pager`), a
  database file that is still empty (`PagerAssumption` and `FreePagesAssumption`
  want a first page).
  The models assume that a sector is written as a whole, that a torn record of
  the journal is recognised, and that deletions and changes of a file's length
  reach the disk in order. Above the pager: the trees, the parser, the compiler
  and the virtual machine. The MySQL client and ODBC are external.

Most of the repository is this vendored code: SQLite alone has some 35,000
lines, the headers and libraries of MySQL most of the rest. The models cover
the launcher, the library and the plugins with state, and of SQLite what the
durability of the data rests on. A model of its parser or of its opcodes would
say nothing of NWNX2.

## Plan

Done: the launcher, the plugin host, persistence, the profiler, the chat
plugin, log rotation, and SQLite's pager, locks and free pages, all with proofs.
What would come next:

1. The pager under the locks: `SharedFile` with `Pager`'s contents in place of
   a version number.
2. The free pages on that pager: `FreePages` over `Pager`, with the end of the
   process and of the power.
