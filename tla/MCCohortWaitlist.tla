-------------------------- MODULE MCCohortWaitlist --------------------------
(***************************************************************************)
(* The instance of CohortWaitlist that TLC checks.                         *)
(***************************************************************************)
EXTENDS CohortWaitlist, TLC

CONSTANTS ann, bea, cid, r1, r2

MCUsers == {ann, bea, cid}
MCRequests == {r1, r2}
Symmetry == Permutations(MCUsers) \union Permutations(MCRequests)
=============================================================================
