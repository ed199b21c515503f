------------------------------ MODULE MCViewers ------------------------------
(***************************************************************************)
(* An instance of Viewers for TLC: one account, two computers, a viewer.   *)
(***************************************************************************)
EXTENDS Viewers, TLC

CONSTANTS u1, s1, s2, c1, c2, v1

MCOwnerOf == s1 :> u1 @@ s2 :> u1
MCSessionOf == c1 :> s1 @@ c2 :> s2
MCAccountOf == v1 :> u1
=============================================================================
