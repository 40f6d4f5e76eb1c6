------------------------- MODULE MCBlockingApproval -------------------------
(***************************************************************************)
(* Two commands in up to two turns and two sessions, with one pattern of   *)
(* the guard's and one rule of tirith's.                                   *)
(***************************************************************************)
EXTENDS BlockingApproval

CONSTANTS pattern, rule

TwoKeys == {pattern, rule}
OneRule == {rule}
=============================================================================
