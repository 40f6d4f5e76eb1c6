-------------------------- MODULE MCProposalQueue --------------------------
(***************************************************************************)
(* Instances of ProposalQueue for TLC.                                     *)
(***************************************************************************)
EXTENDS ProposalQueue

CONSTANTS p1, p2, t1, t2, boot, flywheel

OneProposal    == {p1}
TwoProposals   == {p1, p2}
TwoTaps        == {t1, t2}
OneCommand     == {flywheel}
NoCommand      == {}
=============================================================================
