------------------------------ MODULE MCPlugins ------------------------------
\* Instances of Plugins for TLC.  The names are those of real plugins; in a
\* table of 211 places CHashTable::Hash gives CHAT and SYSTEM the same place.
EXTENDS Plugins, TLC

CONSTANTS ODBC, CHAT, SYSTEM, TIME

RealSlots == ODBC :> 198 @@ CHAT :> 113 @@ SYSTEM :> 113 @@ TIME :> 30
AllHooks == {"SLS", "GLO"}
=============================================================================
