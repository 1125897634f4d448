------------------------------ MODULE PluginMap ------------------------------
(***************************************************************************)
(* What NWNX2 promises a module builder about plugins: "NWNX dynamically   *)
(* loads these plugins on startup, enabling the functionality contained in *)
(* these plugins" (Docs/NWNX2.html), and a request is served by the plugin *)
(* it names.  Names are told apart by their key: the promise is kept in    *)
(* full when no two names have the same key.                               *)
(***************************************************************************)
CONSTANTS
    Names,   \* names of plugins
    Files,   \* those that lie in the server's directory
    Key,     \* what a name is recognised by
    None

VARIABLES
    loaded,  \* plugins that serve requests
    active,  \* the start is over: every request is looked at
    last     \* the last request: whom it named, and who served it

vars == <<loaded, active, last>>

Init ==
    /\ loaded = {}
    /\ active = FALSE
    /\ last = [asked |-> None, by |-> None]

\* The first plugin with a key keeps it.
Load ==
    /\ ~active
    /\ \E f \in Files :
         /\ \A m \in loaded : Key[m] # Key[f]
         /\ loaded' = loaded \cup {f}
    /\ UNCHANGED <<active, last>>

Activate ==
    /\ ~active
    /\ active' = TRUE
    /\ UNCHANGED <<loaded, last>>

Served(n, m) == last' = [asked |-> n, by |-> m] /\ UNCHANGED <<loaded, active>>

Serve == \E n \in Names : \E m \in loaded : Key[m] = Key[n] /\ Served(n, m)

Refuse == \E n \in Names : (\A m \in loaded : Key[m] # Key[n]) /\ Served(n, None)

\* Before the start is over a request may pass by unnoticed.
Miss == ~active /\ \E n \in Names : Served(n, None)

Next == Load \/ Activate \/ Serve \/ Refuse \/ Miss

Spec == Init /\ [][Next]_vars
=============================================================================
