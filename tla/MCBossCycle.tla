----------------------------- MODULE MCBossCycle -----------------------------
(***************************************************************************)
(* Instances of BossCycle for TLC.                                         *)
(***************************************************************************)
EXTENDS BossCycle

CONSTANTS m1, m2
=============================================================================
