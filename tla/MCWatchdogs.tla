----------------------------- MODULE MCWatchdogs -----------------------------
\* Instances of Watchdogs for TLC.
EXTENDS Watchdogs

OneWatchdog == {{"process"}, {"gamespy"}}
BothWatchdogs == {{"process", "gamespy"}}
ProcessOnly == {{"process"}}
GamespyOnly == {{"gamespy"}}
=============================================================================
