------------------------------ MODULE MCRopeTeam ------------------------------
(***************************************************************************)
(* Instances of RopeTeam for TLC.  No property tells clients apart.        *)
(***************************************************************************)
EXTENDS RopeTeam, TLC

CONSTANTS m1, m2

Symmetry == Permutations(Sessions)
=============================================================================
