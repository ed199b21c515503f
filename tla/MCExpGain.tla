------------------------------ MODULE MCExpGain ------------------------------
(***************************************************************************)
(* Instances of ExpGain for TLC.  No property tells sessions apart.        *)
(***************************************************************************)
EXTENDS ExpGain, TLC

CONSTANTS s1, s2, r1

Symmetry == Permutations(Sessions)
=============================================================================
