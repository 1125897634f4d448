--------------------------------- MODULE Store ---------------------------------
(***************************************************************************)
(* What the pager of SQLite promises: a sequence of pages that a           *)
(* transaction changes completely or not at all, with statements that can  *)
(* be taken back, and that survives the end of the process.                *)
(***************************************************************************)
EXTENDS Naturals, Sequences

CONSTANT Values  \* contents of a page

VARIABLES
    committed,  \* the database as the next process finds it
    working,    \* the database as the transaction sees it
    mark        \* what the running statement started with, <<>> without one

storeVars == <<committed, working, mark>>

\* The file may end up longer than the database: pages nobody refers to.
Extends(long, short) ==
    /\ Len(long) >= Len(short)
    /\ SubSeq(long, 1, Len(short)) = short

StoreInit ==
    /\ committed \in Seq(Values)
    /\ working = committed
    /\ mark = <<>>

WritePage ==
    /\ \E p \in 1..Len(working) + 1, v \in Values :
          working' = [q \in 1..Len(working) \cup {p} |-> IF q = p THEN v ELSE working[q]]
    /\ UNCHANGED <<committed, mark>>

StartStatement ==
    /\ mark = <<>>
    /\ mark' = working
    /\ UNCHANGED <<committed, working>>

EndStatement ==
    /\ mark # <<>>
    /\ working' \in {working, mark}
    /\ mark' = <<>>
    /\ UNCHANGED committed

Keep ==
    /\ mark = <<>>
    /\ Extends(committed', working)
    /\ working' = committed'
    /\ UNCHANGED mark

\* A rollback, or the end of the process or of the power.
Forget ==
    /\ working' = committed'
    /\ mark' = <<>>
    /\ Extends(committed', committed)

StoreNext == WritePage \/ StartStatement \/ EndStatement \/ Keep \/ Forget

StoreSpec == StoreInit /\ [][StoreNext]_storeVars

=============================================================================
