---------------------------- MODULE MCMembership ----------------------------
(***************************************************************************)
(* Instances of Membership for TLC.                                        *)
(***************************************************************************)
EXTENDS Membership, TLC

CONSTANTS a, b, c

\* a is an admin by the config file; the others have only what the roster says.
ConfigAdmin == [u \in Users |-> IF u = a THEN RoleAdmin ELSE RoleUser]

\* Handlers run the same code, so their names do not matter.
ProcSymmetry == Permutations(Procs)
=============================================================================
