---------------------------- MODULE MCRedPending ----------------------------
(* Names of the effects, threads and processes that the instances of        *)
(* RedPending for TLC are built from, and how often each effect may be       *)
(* proposed: a change of the dock manifest, a row from before sealing, a     *)
(* write of an ungoverned file.                                              *)
EXTENDS RedPending, TLC

CONSTANTS dock, old, note, t1, c1, c2

GatewayPuts == [p \in Proposals |-> IF p = dock THEN 2 ELSE 1]

CliPuts == [p \in Proposals |-> 3]

OncePuts == [p \in Proposals |-> 1]

\* The command lines do the same things.
CliSymmetry == Permutations(Clis)

=============================================================================
