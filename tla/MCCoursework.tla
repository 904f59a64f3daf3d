---------------------------- MODULE MCCoursework ----------------------------
(***************************************************************************)
(* The instance of Coursework that TLC checks: work that passes with one   *)
(* or with two of two points, submitted twice or only once.                *)
(***************************************************************************)
EXTENDS Coursework, TLC

CONSTANTS r1, r2

Asks(passing, again, limit) == [passing |-> passing, again |-> again, limit |-> limit]
MCSettings == {Asks(1, TRUE, 2), Asks(2, FALSE, 1)}
MCRequests == {r1, r2}

Symmetry == Permutations(MCRequests)
=============================================================================
