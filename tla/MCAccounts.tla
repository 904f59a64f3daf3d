----------------------------- MODULE MCAccounts -----------------------------
(***************************************************************************)
(* The instances of Accounts that TLC checks.                              *)
(***************************************************************************)
EXTENDS Accounts, TLC

CONSTANTS u1, u2, r1, r2

MCUsers == {u1, u2}
MCRequests == {r1, r2}

Symmetry == Permutations(MCRequests)
=============================================================================
