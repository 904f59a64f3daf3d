----------------------------- MODULE MCSessions -----------------------------
(***************************************************************************)
(* The instance of Sessions that TLC checks.  The users are not exchanged: *)
(* the model chooses one of them for rows that are not there.              *)
(***************************************************************************)
EXTENDS Sessions, TLC

CONSTANTS u1, u2, r1, r2

MCRequests == {r1, r2}

Symmetry == Permutations(MCRequests)
=============================================================================
