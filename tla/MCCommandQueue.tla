---------------------------- MODULE MCCommandQueue ----------------------------
(***************************************************************************)
(* Instances of CommandQueue for TLC.                                      *)
(***************************************************************************)
EXTENDS CommandQueue

CONSTANTS c1, c2, p1, d1
=============================================================================
