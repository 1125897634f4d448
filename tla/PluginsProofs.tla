---------------------------- MODULE PluginsProofs ----------------------------
(***************************************************************************)
(* Theorems about Plugins, for every set of plugins and scripts' names,    *)
(* every hash function and every size of the table.                        *)
(***************************************************************************)
EXTENDS Plugins, TLAPS

\* The steps of the two threads, one by one.
LEMMA Steps ==
    ASSUME [Next]_vars
    PROVE  \/ Resolve \/ LayHook \/ CreateTable \/ LoadPlugin \/ InsertPlugin \/ Finish
           \/ \E h \in Hook : Request(h)
           \/ NextHook \/ NameServerAnswers \/ UNCHANGED vars
  BY DEF Next, InitStep

\* Whatever sits in the place of a name is a plugin or nobody.
LEMMA LookupType ==
    ASSUME TypeOK, NEW n \in Names
    PROVE  Lookup(n) \in Files \cup {None}
  BY PluginsAssumption DEF TypeOK, Lookup

\* A request and what it leaves behind.
LEMMA RequestType ==
    ASSUME TypeOK, NEW h \in Hook, Request(h)
    PROVE  TypeOK'
<1>1. server' \in {"up", "crashed"} /\ call' \in Hook \cup {None}
  BY DEF Request, Unhooked, Crash, Dispatch, PassThrough, TypeOK
<1>2. last' \in [asked : Names \cup {None}, by : Files \cup {None}]
  BY LookupType DEF Request, Unhooked, Crash, Dispatch, PassThrough, TypeOK
<1> QED BY <1>1, <1>2 DEF Request, TypeOK, initVars, tableVars

\* Every variable stays in its type.
THEOREM PluginsTypeCorrect == Spec => []TypeOK
<1>1. Init => TypeOK
  <2>1. 0 \in 0 .. GiveUpAfter + 1
    BY PluginsAssumption
  <2>2. [asked |-> None, by |-> None] \in [asked : Names \cup {None}, by : Files \cup {None}]
    OBVIOUS
  <2>3. Init => hook \in [Hook -> {"none", "patching", "jump", "bridge"}]
    BY DEF Init
  <2>4. Init => table \in [Slots -> Files \cup {None}]
    BY DEF Init
  <2> QED BY <2>1, <2>2, <2>3, <2>4 DEF Init, TypeOK, At, Nobody
<1>2. TypeOK /\ [Next]_vars => TypeOK'
  <2> SUFFICES ASSUME TypeOK, [Next]_vars PROVE TypeOK'
    OBVIOUS
  <2>1. CASE Resolve
    <3>1. elapsed' \in 0 .. GiveUpAfter + 1 /\ at' \in At
      BY <2>1, PluginsAssumption DEF Resolve, Waited, TypeOK, At
    <3> QED BY <2>1, <3>1 DEF Resolve, TypeOK, tableVars
  <2>2. CASE LayHook
    <3>1. hook' \in [Hook -> {"none", "patching", "jump", "bridge"}]
      <4>1. CASE LayOne
        <5>1. hook[Turn] \in {"none", "patching", "jump"}
          BY <4>1, PluginsAssumption DEF LayOne, Turn, Pending, TypeOK, Hook
        <5> QED BY <4>1, <5>1 DEF LayOne, TypeOK
      <4>2. CASE UNCHANGED hook
        BY <4>2 DEF TypeOK
      <4> QED BY <2>2, <4>1, <4>2 DEF LayHook
    <3> QED BY <2>2, <3>1 DEF LayHook, LayOne, TypeOK, tableVars, At
  <2>3. CASE CreateTable
    BY <2>3 DEF CreateTable, TypeOK, At
  <2>4. CASE LoadPlugin
    BY <2>4 DEF LoadPlugin, TypeOK, initVars
  <2>5. CASE InsertPlugin
    <3>1. table' \in [Slots -> Files \cup {None}]
      BY <2>5 DEF InsertPlugin, TypeOK
    <3> QED BY <2>5, <3>1 DEF InsertPlugin, TypeOK, initVars
  <2>6. CASE Finish
    BY <2>6 DEF Finish, TypeOK, tableVars, At
  <2>7. CASE NextHook
    BY <2>7 DEF NextHook, Crash, TypeOK, initVars, tableVars
  <2>8. CASE NameServerAnswers
    BY <2>8 DEF NameServerAnswers, TypeOK, tableVars
  <2>9. CASE UNCHANGED vars
    BY <2>9 DEF vars, initVars, tableVars, TypeOK
  <2> QED BY <2>1, <2>2, <2>3, <2>4, <2>5, <2>6, <2>7, <2>8, <2>9, Steps, RequestType
<1> QED BY <1>1, <1>2, PTL DEF Spec

-----------------------------------------------------------------------------
(* The order of the start: both bridges, then the table, then plugins.     *)

OrderInv ==
    /\ at \in {"create", "load", "done"} => \A h \in Found : hook[h] = "bridge"
    /\ at \in {"load", "done"} => created
    /\ \A h \in Hook : h \notin Found => hook[h] = "none"
    /\ loading # None => at = "load"
    /\ call # None => hook[call] \in {"jump", "bridge"}

\* A hook that was laid stays, one that is being laid makes progress.
LEMMA LayProgress ==
    ASSUME TypeOK, LayHook
    PROVE  /\ \A h \in Hook : h \notin Found => hook'[h] = hook[h]
           /\ \A h \in Hook : hook[h] \in {"jump", "bridge"} => hook'[h] \in {"jump", "bridge"}
           /\ at' = "hooks" \/ (at' = "create" /\ UNCHANGED hook /\ Pending = {})
<1>1. CASE LayOne
  <2>1. Turn \in Found /\ Turn \in Hook
    BY <1>1, PluginsAssumption DEF LayOne, Turn, Pending, Hook
  <2>2. hook[Turn] \in {"none", "patching", "jump"}
    BY <1>1, PluginsAssumption DEF LayOne, Turn, Pending, TypeOK, Hook
  <2>3. hook[Turn] = "jump" => hook'[Turn] = "bridge"
    BY <1>1, <2>1, <2>2 DEF LayOne, TypeOK
  <2>4. \A h \in Hook : h # Turn => hook'[h] = hook[h]
    BY <1>1, <2>1 DEF LayOne, TypeOK
  <2> QED BY <1>1, <2>1, <2>2, <2>3, <2>4 DEF LayOne, LayHook
<1>2. CASE ~LayOne
  BY <1>2 DEF LayHook
<1> QED BY <1>1, <1>2

\* OrderInv always holds.
LEMMA OrderCorrect == Spec => []OrderInv
<1>1. Init => OrderInv
  BY PluginsAssumption DEF Init, OrderInv
<1>2. TypeOK /\ OrderInv /\ [Next]_vars => OrderInv'
  <2> SUFFICES ASSUME TypeOK, OrderInv, [Next]_vars PROVE OrderInv'
    OBVIOUS
  <2>1. CASE LayHook
    <3>1. UNCHANGED <<created, loading, call>> /\ at = "hooks"
      BY <2>1 DEF LayHook, tableVars
    <3>2. Pending = {} => \A h \in Found : hook[h] = "bridge"
      BY DEF Pending
    <3> QED BY <2>1, <3>1, <3>2, LayProgress DEF OrderInv, TypeOK
  <2>2. CASE Resolve \/ CreateTable \/ LoadPlugin \/ InsertPlugin \/ Finish
    BY <2>2
    DEF Resolve, CreateTable, LoadPlugin, InsertPlugin, Finish, OrderInv, initVars, tableVars
  <2>3. ASSUME NEW h \in Hook, Request(h) PROVE OrderInv'
    BY <2>3
    DEF Request, Unhooked, Crash, Dispatch, PassThrough, OrderInv, initVars, tableVars
  <2>4. CASE NextHook \/ NameServerAnswers \/ UNCHANGED vars
    BY <2>4
    DEF NextHook, NameServerAnswers, Crash, vars, OrderInv, initVars, tableVars
  <2> QED BY <2>1, <2>2, <2>3, <2>4, Steps
<1> QED BY <1>1, <1>2, PluginsTypeCorrect, PTL DEF Spec

\* Once the start is over no request crashes the server, not even one that
\* entered a hook while the start was going on.
THEOREM SafeWhenActive == Spec => SafeOnceActive
<1>1. TypeOK /\ OrderInv /\ [Next]_vars
        => [server' = "crashed" /\ server = "up" => at # "done"]_vars
  <2> SUFFICES ASSUME TypeOK, OrderInv, [Next]_vars,
                      server' = "crashed", server = "up", at = "done"
               PROVE  FALSE
    OBVIOUS
  <2>1. created /\ \A h \in Hook : hook[h] \in {"none", "bridge"}
    BY DEF OrderInv
  <2>2. UNCHANGED server => FALSE
    OBVIOUS
  <2>3. ~\E h \in Hook : Request(h)
    BY <2>1, <2>2 DEF Request, Unhooked, Crash, Dispatch, PassThrough
  <2>4. ~NextHook
    BY <2>1, <2>2 DEF NextHook, OrderInv, TypeOK
  <2> QED
    BY <2>2, <2>3, <2>4, Steps
    DEF Resolve, LayHook, CreateTable, LoadPlugin, InsertPlugin, Finish, NameServerAnswers, vars
<1> QED BY <1>1, PluginsTypeCorrect, OrderCorrect, PTL DEF Spec, SafeOnceActive

-----------------------------------------------------------------------------
(* The table is the promised registry.                                     *)

\* Nobody holds a place that his name does not select.
Placed == \A s \in Slots : table[s] # None => Slot[table[s]] = s

\* Placed always holds.
LEMMA PlacedCorrect == Spec => []Placed
<1>1. Init => Placed
  BY DEF Init, Placed
<1>2. TypeOK /\ Placed /\ [Next]_vars => Placed'
  <2> SUFFICES ASSUME TypeOK, Placed, [Next]_vars PROVE Placed'
    OBVIOUS
  <2>1. CASE InsertPlugin
    BY <2>1 DEF InsertPlugin, Placed, TypeOK
  <2>2. CASE UNCHANGED table
    BY <2>2 DEF Placed
  <2> QED
    BY <2>1, <2>2, Steps
    DEF Resolve, LayHook, CreateTable, LoadPlugin, Finish, Request, NextHook,
        NameServerAnswers, vars, tableVars
<1> QED BY <1>1, <1>2, PluginsTypeCorrect, PTL DEF Spec

Holders == {f \in Files : table[Slot[f]] = f}

\* What the lookup finds, in terms of the plugins that serve.
LEMMA LookupFinds ==
    ASSUME TypeOK, Placed, NEW n \in Names
    PROVE  /\ Lookup(n) # None => Lookup(n) \in Holders /\ Slot[Lookup(n)] = Slot[n]
           /\ Lookup(n) = None => \A m \in Holders : Slot[m] # Slot[n]
<1>1. Slot[n] \in Slots
  BY PluginsAssumption
<1>2. CASE Lookup(n) # None
  <2>1. Lookup(n) \in Files
    BY <1>2, LookupType
  <2>2. Slot[Lookup(n)] = Slot[n]
    BY <1>1, <1>2 DEF Lookup, Placed
  <2>3. table[Slot[Lookup(n)]] = Lookup(n)
    BY <2>2 DEF Lookup
  <2> QED BY <1>2, <2>1, <2>2, <2>3 DEF Holders
<1>3. CASE Lookup(n) = None
  <2>1. ASSUME NEW m \in Holders, Slot[m] = Slot[n] PROVE FALSE
    BY <1>3, <2>1, PluginsAssumption DEF Holders, Lookup
  <2> QED BY <1>3, <2>1
<1> QED BY <1>2, <1>3

\* A plugin is inserted, or finds its place taken.
LEMMA InsertRefines ==
    ASSUME TypeOK, OrderInv, Placed, InsertPlugin
    PROVE  Registry!Load \/ UNCHANGED Registry!vars
<1>1. /\ at = "load" /\ UNCHANGED <<at, last>>
      /\ loading \in Files /\ Slot[loading] \in Slots
  BY PluginsAssumption DEF InsertPlugin, TypeOK, initVars
<1>2. CASE table[Slot[loading]] = None
  <2>1. \A m \in Holders : Slot[m] # Slot[loading]
    BY <1>2, PluginsAssumption DEF Holders
  <2>2. \A f \in Files : table'[Slot[f]] = IF Slot[f] = Slot[loading] THEN loading
                                           ELSE table[Slot[f]]
    BY <1>1, <1>2, PluginsAssumption DEF InsertPlugin, TypeOK
  <2>3. Holders' = Holders \cup {loading}
    BY <1>1, <2>1, <2>2 DEF Holders
  <2> QED BY <1>1, <2>1, <2>3 DEF Registry!Load, Holders
<1>3. CASE table[Slot[loading]] # None
  BY <1>1, <1>3 DEF InsertPlugin, Registry!vars
<1> QED BY <1>2, <1>3

\* A request is served as promised.
LEMMA RequestRefines ==
    ASSUME TypeOK, OrderInv, Placed, Found = Hook, NEW h \in Hook, Request(h)
    PROVE  Registry!Next \/ UNCHANGED Registry!vars
<1>1. UNCHANGED <<at, table>>
  BY DEF Request, initVars, tableVars
<1>2. CASE UNCHANGED last
  BY <1>1, <1>2 DEF Registry!vars
<1>3. CASE Unhooked /\ hook[h] \in {"none", "patching"}
  <2>1. at # "done"
    BY <1>3 DEF OrderInv
  <2>2. Registry!Miss
    BY <1>1, <1>3, <2>1 DEF Unhooked, Registry!Miss, Registry!Served
  <2> QED BY <2>2 DEF Registry!Next
<1>4. CASE Dispatch(h) /\ ~UNCHANGED last
  <2>1. PICK n \in Names : last' = [asked |-> n, by |-> Lookup(n)]
    BY <1>4 DEF Dispatch, Crash
  <2>2. CASE Lookup(n) # None
    <3>1. Registry!Serve
      BY <1>1, <2>1, <2>2, LookupFinds DEF Registry!Serve, Registry!Served, Holders
    <3> QED BY <3>1 DEF Registry!Next
  <2>3. CASE Lookup(n) = None
    <3>1. Registry!Refuse
      BY <1>1, <2>1, <2>3, LookupFinds DEF Registry!Refuse, Registry!Served, Holders
    <3> QED BY <3>1 DEF Registry!Next
  <2> QED BY <2>2, <2>3
<1> QED BY <1>2, <1>3, <1>4 DEF Request, Crash, PassThrough

\* The plugin table of nwnx.dll implements the promised registry, names being
\* told apart by their place in the table, when both functions are found.
THEOREM TableImplementsMap ==
    ASSUME Found = Hook
    PROVE  Spec => ImplementsMap
<1>1. Init => Registry!Init
  BY PluginsAssumption DEF Init, Registry!Init, Nobody
<1>2. TypeOK /\ OrderInv /\ Placed /\ [Next]_vars => [Registry!Next]_(Registry!vars)
  <2> SUFFICES ASSUME TypeOK, OrderInv, Placed, [Next]_vars
               PROVE  Registry!Next \/ UNCHANGED Registry!vars
    OBVIOUS
  <2>1. CASE InsertPlugin
    BY <2>1, InsertRefines DEF Registry!Next
  <2>2. ASSUME NEW h \in Hook, Request(h) PROVE Registry!Next \/ UNCHANGED Registry!vars
    BY <2>2, RequestRefines
  <2>3. CASE Finish
    BY <2>3 DEF Finish, tableVars, Registry!Next, Registry!Activate
  <2>4. CASE LoadPlugin \/ NameServerAnswers \/ UNCHANGED vars
    BY <2>4 DEF LoadPlugin, NameServerAnswers, vars, initVars, tableVars, Registry!vars
  <2>5. CASE Resolve \/ LayHook \/ CreateTable
    <3>1. /\ UNCHANGED <<table, last>>
          /\ at # "done" /\ at' # "done"
      BY <2>5 DEF Resolve, LayHook, LayOne, CreateTable, tableVars
    <3> QED BY <3>1 DEF Registry!vars
  <2>6. CASE NextHook
    BY <2>6 DEF NextHook, Crash, initVars, tableVars, Registry!vars
  <2> QED BY <2>1, <2>2, <2>3, <2>4, <2>5, <2>6, Steps
<1> QED
  BY <1>1, <1>2, PluginsTypeCorrect, OrderCorrect, PlacedCorrect, PTL
  DEF Spec, ImplementsMap, Registry!Spec

\* When no two of the names collide, a request is served by the plugin it names
\* or by none.
THEOREM DistinctPlacesServe ==
    ASSUME \A m, n \in Names : Slot[m] = Slot[n] => m = n
    PROVE  Spec => []ServedByNamesake
<1>1. Init => ServedByNamesake
  BY DEF Init, ServedByNamesake, Nobody
<1>2. TypeOK /\ Placed /\ ServedByNamesake /\ [Next]_vars => ServedByNamesake'
  <2> SUFFICES ASSUME TypeOK, Placed, ServedByNamesake, [Next]_vars
               PROVE  ServedByNamesake'
    OBVIOUS
  <2>1. CASE UNCHANGED last
    BY <2>1 DEF ServedByNamesake
  <2>2. ASSUME NEW n \in Names, NEW m, last' = [asked |-> n, by |-> m],
               m = None \/ m = Lookup(n)
        PROVE  ServedByNamesake'
    <3>1. m \in {n, None}
      BY <2>2, LookupFinds, PluginsAssumption DEF Holders
    <3> QED BY <2>2, <3>1 DEF ServedByNamesake
  <2>3. ASSUME NEW h \in Hook, Request(h) PROVE ServedByNamesake'
    BY <2>1, <2>2, <2>3 DEF Request, Unhooked, Crash, Dispatch, PassThrough
  <2> QED
    BY <2>1, <2>3, Steps
    DEF Resolve, LayHook, CreateTable, LoadPlugin, InsertPlugin, Finish, NextHook, Crash,
        NameServerAnswers, vars
<1> QED BY <1>1, <1>2, PluginsTypeCorrect, PlacedCorrect, PTL DEF Spec
=============================================================================
