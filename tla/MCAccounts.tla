----------------------------- MODULE MCAccounts -----------------------------
(***************************************************************************)
(* An instance of Accounts for TLC: two people register with one code; the *)
(* first has two computers, and one of them may bind again and connect     *)
(* while its earlier handler still runs.                                   *)
(***************************************************************************)
EXTENDS Accounts, TLC

CONSTANTS u1, u2, i1, r1, r2, k1, k2, q1, q2, q3, b1

MCNameOf == r1 :> u1 @@ r2 :> u2
MCCodeOf == r1 :> i1 @@ r2 :> i1
MCOwnerOf == k1 :> u1 @@ k2 :> u1
MCClientOf == q1 :> k1 @@ q2 :> k2 @@ q3 :> k1 @@ b1 :> k1
=============================================================================
