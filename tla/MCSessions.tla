----------------------------- MODULE MCSessions -----------------------------
(***************************************************************************)
(* An instance of Sessions for TLC: one account, two computers, and the    *)
(* first may have two handlers at a time.                                  *)
(***************************************************************************)
EXTENDS Sessions, TLC

CONSTANTS u1, s1, s2, c1, c2, c3

MCOwnerOf == s1 :> u1 @@ s2 :> u1
MCSessionOf == c1 :> s1 @@ c2 :> s2 @@ c3 :> s1
=============================================================================
