-------------------------- MODULE MCReferralLedger --------------------------
(***************************************************************************)
(* The instance of ReferralLedger that TLC checks.  The prices and rates  *)
(* make one commission stay below the threshold of 8 cents, reach it       *)
(* exactly or pass it, alone or with a second one; one of them rounds.  A   *)
(* threshold of zero is legal, too.                                        *)
(***************************************************************************)
EXTENDS ReferralLedger, TLC

CONSTANTS p1, p2, p3, k1, k2, r1, r2

MCPrice == [p \in {p1, p2, p3} |-> IF p = p1 THEN 10 ELSE IF p = p2 THEN 15 ELSE 6]

Terms(suspended, rateBps, threshold) ==
  [suspended |-> suspended, rateBps |-> rateBps, threshold |-> threshold]
MCProfiles == {Terms(FALSE, 5000, 8), Terms(FALSE, 2500, 0), Terms(TRUE, 5000, 8)}

Symmetry == Permutations({k1, k2}) \union Permutations({r1, r2})
=============================================================================
