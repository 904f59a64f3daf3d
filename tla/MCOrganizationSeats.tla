------------------------ MODULE MCOrganizationSeats ------------------------
(***************************************************************************)
(* The instance of OrganizationSeats that TLC checks: an instructor, whom  *)
(* promotion leaves alone, owns the organization, and one more user is a    *)
(* learner; a course that is published and one that is not, one pack of a  *)
(* seat and two invitations, with two requests at a time.                  *)
(***************************************************************************)
EXTENDS OrganizationSeats, TLC

CONSTANTS olga, pia, k1, i1, i2, r1, r2

MCUsers == {olga, pia}
MCStartRoles == {(olga :> "INSTRUCTOR") @@ (pia :> "LEARNER")}
MCPackIds == {k1}
MCInvitationIds == {i1, i2}
MCRequests == {r1, r2}

Symmetry == Permutations(MCInvitationIds)
            \union Permutations(MCRequests)
=============================================================================
