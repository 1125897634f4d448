------------------------------- MODULE MCOdbc2 -------------------------------
\* Instances of Odbc2 for TLC.
EXTENDS Odbc2

CONSTANTS r1, r2

SmallResults == {<<>>, <<r1>>, <<r1, r2>>}
=============================================================================
