---------------------------- MODULE MCCurriculum ----------------------------
(***************************************************************************)
(* The instance of Curriculum that TLC checks: two modules and two         *)
(* lessons at most, that take one minute or none, and one price.           *)
(***************************************************************************)
EXTENDS Curriculum, TLC

CONSTANTS r1, r2

MCMinutes == {0, 1}
MCPrices == {5}
MCRequests == {r1, r2}

Symmetry == Permutations(MCRequests)
=============================================================================
