------------------------------- MODULE Plugins -------------------------------
(***************************************************************************)
(* nwnx.dll inside the server process.  DllMain starts a thread that runs  *)
(* Init: it resolves two host names, patches two functions of the server   *)
(* and loads the plugins into a hash table.  The server's own thread is    *)
(* resumed as soon as the library is loaded, so it runs scripts, and their *)
(* requests "NWNX!<library>!<function>", beside all of that.               *)
(*                                                                         *)
(* A plugin is its name; Slot is the hash of a name, modulo the table size *)
(* (CHashTable::Hash).  What a request carries and returns is left out.    *)
(***************************************************************************)
EXTENDS Naturals

CONSTANTS
    Names,        \* library names that files or scripts mention
    Files,        \* libraries with a file nwnx_<name>.dll
    Slots,        \* places of the hash table
    Slot,         \* the place that the hash of a name selects
    Found,        \* functions whose signature the search in memory finds
    StartClock,   \* clock() in seconds when NewMasterServerInit starts
    GiveUpAfter,  \* the 10 of "t > 10.0f"
    None

ASSUME PluginsAssumption ==
    /\ Files \subseteq Names
    /\ None \notin Names
    /\ Slot \in [Names -> Slots]
    /\ Found \subseteq {"SLS", "GLO"}
    /\ StartClock \in Nat
    /\ GiveUpAfter \in Nat

VARIABLES
    at,        \* where the Init thread is
    dns,       \* whether the name server answers: "silent", "answers"
    elapsed,   \* seconds spent resolving, up to one more than GiveUpAfter
    hook,      \* state of each patched function
    created,   \* Libraries.Create has run
    todo,      \* files that FindNextFile has not delivered yet
    loading,   \* the plugin that OnCreate runs for, or None
    table,     \* m_Items: who sits in each place, or None
    server,    \* "up" or "crashed"
    call,      \* the hook the server's thread is in, about to go on, or None
    last       \* the last request: whom it named, and who served it

initVars == <<at, dns, elapsed>>
tableVars == <<created, todo, loading, table>>
vars == <<initVars, hook, tableVars, server, call, last>>

Hook == {"SLS", "GLO"}    \* SetLocalString and GetLocalObject
At == {"master", "bioware", "hooks", "create", "load", "done"}
Nobody == [asked |-> None, by |-> None]

TypeOK ==
    /\ at \in At
    /\ dns \in {"silent", "answers"}
    /\ elapsed \in 0 .. GiveUpAfter + 1
    /\ hook \in [Hook -> {"none", "patching", "jump", "bridge"}]
    /\ created \in BOOLEAN
    /\ todo \subseteq Files
    /\ loading \in Files \cup {None}
    /\ table \in [Slots -> Files \cup {None}]
    /\ server \in {"up", "crashed"}
    /\ call \in Hook \cup {None}
    /\ last \in [asked : Names \cup {None}, by : Files \cup {None}]

Init ==
    /\ at = "master"
    /\ dns \in {"silent", "answers"}
    /\ elapsed = 0
    /\ hook = [h \in Hook |-> "none"]
    /\ created = FALSE
    /\ todo = Files
    /\ loading = None
    /\ table = [s \in Slots |-> None]
    /\ server = "up"
    /\ call = None
    /\ last = Nobody

-----------------------------------------------------------------------------
\* The Init thread.

Waited == IF elapsed > GiveUpAfter THEN elapsed ELSE elapsed + 1

\* NewMasterServerInit: one turn of a loop "while(masterserver == NULL)".  The
\* time it tests, c, was read before the loop and is not read again.
Resolve ==
    /\ \E next \in At :
         /\ <<at, next>> \in {<<"master", "bioware">>, <<"bioware", "hooks">>}
         /\ \/ /\ dns = "answers"
               /\ at' = next
               /\ UNCHANGED elapsed
            \/ /\ dns = "silent"
               /\ at' = IF StartClock > GiveUpAfter THEN next ELSE at
               /\ elapsed' = Waited
    /\ UNCHANGED <<dns, hook, tableVars, server, call, last>>

Pending == {h \in Found : hook[h] # "bridge"}
Turn == IF "SLS" \in Pending THEN "SLS" ELSE "GLO"

\* HookFunction_General: make_jmp writes the jump byte by byte into the code,
\* then CreateGeneralBridge sets the pointer that leads back to the original.
LayOne ==
    /\ Pending # {}
    /\ hook' = [hook EXCEPT ![Turn] =
                  CASE hook[Turn] = "none" -> "patching"
                    [] hook[Turn] = "patching" -> "jump"
                    [] hook[Turn] = "jump" -> "bridge"]
    /\ UNCHANGED at

\* Mutant: LoadLibraries goes on without Libraries.Create.
LayHookNoTable ==
    /\ at = "hooks"
    /\ LayOne \/ (Pending = {} /\ at' = "load" /\ UNCHANGED hook)
    /\ UNCHANGED <<dns, elapsed, tableVars, server, call, last>>

LayHook ==
    /\ at = "hooks"
    /\ LayOne \/ (Pending = {} /\ at' = "create" /\ UNCHANGED hook)
    /\ UNCHANGED <<dns, elapsed, tableVars, server, call, last>>

\* LoadLibraries: Libraries.Create, then FindFirstFile.
CreateTable ==
    /\ at = "create"
    /\ created' = TRUE
    /\ at' = "load"
    /\ UNCHANGED <<dns, elapsed, hook, todo, loading, table, server, call, last>>

\* The next file, in any order.  LoadLibrary, GetClassObject or the instance
\* may fail; what OnCreate returns is only logged.
LoadPlugin ==
    /\ at = "load"
    /\ loading = None
    /\ \E f \in todo :
         /\ todo' = todo \ {f}
         /\ loading' \in {f, None}
    /\ UNCHANGED <<initVars, hook, created, table, server, call, last>>

\* Mutant: a plugin takes the place over from the one that has it.
InsertOver ==
    /\ at = "load"
    /\ loading # None
    /\ table' = [table EXCEPT ![Slot[loading]] = loading]
    /\ loading' = None
    /\ UNCHANGED <<initVars, hook, created, todo, server, call, last>>

\* Libraries.Insert: nothing when the place is taken, which nobody checks.
InsertPlugin ==
    /\ at = "load"
    /\ loading # None
    /\ table' = IF table[Slot[loading]] = None
                THEN [table EXCEPT ![Slot[loading]] = loading]
                ELSE table
    /\ loading' = None
    /\ UNCHANGED <<initVars, hook, created, todo, server, call, last>>

\* Mutant: the start is not over before every plugin has got its place.
FinishWaits ==
    /\ at = "load"
    /\ loading = None
    /\ todo = {}
    /\ \A f \in Files : table[Slot[f]] = f
    /\ at' = "done"
    /\ UNCHANGED <<dns, elapsed, hook, tableVars, server, call, last>>

\* FindNextFile, or FindFirstFile, has no more: "NWNX2 activated".
Finish ==
    /\ at = "load"
    /\ loading = None
    /\ todo = {}
    /\ at' = "done"
    /\ UNCHANGED <<dns, elapsed, hook, tableVars, server, call, last>>

InitStep ==
    /\ server = "up"
    /\ Resolve \/ LayHook \/ CreateTable \/ LoadPlugin \/ InsertPlugin \/ Finish

-----------------------------------------------------------------------------
\* The server's thread.

\* Mutant: the index of the item instead of its data.
LookupIndex(n) == Slot[n]

\* CHashTable::Lookup: whatever sits in the place; the keys are not compared.
Lookup(n) == table[Slot[n]]

Crash == server' = "crashed" /\ UNCHANGED <<call, last>>

\* The original function runs, nobody looks at the name.
Unhooked ==
    /\ \E n \in Names : last' = [asked |-> n, by |-> None]
    /\ UNCHANGED <<server, call>>

\* PayLoad and ObjectPayLoad, behind the jump of hook h.  The table's size is 0
\* before Create and Lookup divides by it.  A served GetLocalObject returns at
\* once, everything else goes on to the original.
Dispatch(h) ==
    \E n \in Names :
        IF ~created THEN Crash
        ELSE /\ last' = [asked |-> n, by |-> Lookup(n)]
             /\ call' = IF h = "GLO" /\ Lookup(n) # None THEN None ELSE h
             /\ UNCHANGED server

\* A variable whose name is not for NWNX2 only passes through.
PassThrough(h) == call' = h /\ UNCHANGED <<server, last>>

\* A script sets or gets a local variable.  Half-patched code may do anything.
Request(h) ==
    /\ server = "up"
    /\ call = None
    /\ \/ hook[h] \in {"none", "patching"} /\ Unhooked
       \/ hook[h] = "patching" /\ Crash
       \/ hook[h] \in {"jump", "bridge"} /\ (Dispatch(h) \/ PassThrough(h))
    /\ UNCHANGED <<initVars, hook, tableVars>>

\* call SetLocalStringNextHook, call GetLocalObjectNextHook: the pointer is
\* NULL until the bridge is there.
NextHook ==
    /\ server = "up"
    /\ call # None
    /\ \/ /\ hook[call] = "bridge"
          /\ call' = None
          /\ UNCHANGED <<server, last>>
       \/ hook[call] # "bridge" /\ Crash
    /\ UNCHANGED <<initVars, hook, tableVars>>

\* The network's business.
NameServerAnswers ==
    /\ dns = "silent"
    /\ dns' = "answers"
    /\ UNCHANGED <<at, elapsed, hook, tableVars, server, call, last>>

Next == InitStep \/ (\E h \in Hook : Request(h)) \/ NextHook \/ NameServerAnswers

Spec == Init /\ [][Next]_vars

\* Windows schedules the Init thread.
FairSpec == Spec /\ WF_vars(InitStep)

-----------------------------------------------------------------------------
(* Properties.                                                             *)

\* Once "NWNX2 activated" is logged, nothing a script does with variables
\* crashes the server: both patches are whole and the table is there, also for
\* a call that entered a hook before (PayLoad, HookFunction_General).
SafeOnceActive == [][server' = "crashed" /\ server = "up" => at # "done"]_vars

\* The table is the registry the documentation promises, with the hash for a
\* key: the first plugin in a place serves all names of that place, for good,
\* and a name whose place is free is refused (CHashTable, LoadLibraries, PayLoad).
Registry == INSTANCE PluginMap
              WITH Key <- Slot, loaded <- {f \in Files : table[Slot[f]] = f},
                   active <- at = "done"
ImplementsMap == Registry!Spec

\* When the name server answers, the plugins get loaded, unless a request that
\* came too early crashed the server.
GetsActive == dns = "answers" ~> (at = "done" \/ server = "crashed")

\* Comment in NewMasterServerInit: "Try to get the master server, but give up
\* after 10 seconds."
GivesUp == <>(at \notin {"master", "bioware"} \/ server = "crashed")

\* Docs/NWNX2.html: "NWNX dynamically loads these plugins on startup, enabling
\* the functionality contained in these plugins", "as many NWNX plugins as you
\* like".  A request is served by the plugin it names or by none.
ServedByNamesake == last.by \in {last.asked, None}
=============================================================================
