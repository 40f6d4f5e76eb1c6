---------------------------- MODULE MCSessionTurns ----------------------------
(***************************************************************************)
(* Instances of SessionTurns for TLC.                                      *)
(***************************************************************************)
EXTENDS SessionTurns, TLC

CONSTANTS m1, m2, m3, m4, stop

ThreeMessages == {m1, m2, m3}
FourMessages  == {m1, m2, m3, m4}
OneCommand    == {stop}
Alike         == Permutations(ThreeMessages)
FourAlike     == Permutations(FourMessages)
=============================================================================
