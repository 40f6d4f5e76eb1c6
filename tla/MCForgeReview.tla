---------------------------- MODULE MCForgeReview ----------------------------
(***************************************************************************)
(* Instances of ForgeReview for TLC.                                       *)
(***************************************************************************)
EXTENDS ForgeReview

CONSTANTS t1, t2

OneTap  == {t1}
TwoTaps == {t1, t2}
=============================================================================
