------------------------------ MODULE MCKanban ------------------------------
(***************************************************************************)
(* Instances of Kanban for TLC.                                            *)
(***************************************************************************)
EXTENDS Kanban

CONSTANTS a, b, gw

TwoTasks  == {a, b}
Gateway   == {gw}
OneRetry  == [t \in Tasks |-> IF t = b THEN 1 ELSE 0]
=============================================================================
