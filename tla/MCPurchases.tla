---------------------------- MODULE MCPurchases -----------------------------
(***************************************************************************)
(* The instances of Purchases that TLC checks: a checkout asks for a seat  *)
(* pack, for one course, or for a bundle of both courses.                  *)
(***************************************************************************)
EXTENDS Purchases

CONSTANTS c1, c2

MCDrafts == {{}, {c1}, {c1, c2}}
MCPackOrCourse == {{}, {c1}}
MCPack == {{}}
=============================================================================
