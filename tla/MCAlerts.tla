------------------------------- MODULE MCAlerts -------------------------------
(***************************************************************************)
(* An instance of Alerts for TLC.  No property tells sessions apart.       *)
(***************************************************************************)
EXTENDS Alerts, TLC

CONSTANTS s1, s2

Symmetry == Permutations(Sessions)
=============================================================================
