--------------------------- MODULE MCEnrollments ---------------------------
(***************************************************************************)
(* The instances of Enrollments that TLC checks.                           *)
(***************************************************************************)
EXTENDS Enrollments, TLC

CONSTANTS p1, p2, r1, r2

MCPurchaseIds == {p1, p2}
MCRequests == {r1, r2}

Symmetry == Permutations(MCRequests) \union Permutations(MCPurchaseIds)
=============================================================================
