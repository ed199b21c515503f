-------------------------------- MODULE MCHub --------------------------------
(***************************************************************************)
(* Instances of Hub, with readers of the monitor slot, for TLC.            *)
(***************************************************************************)
EXTENDS ActiveMonitor, TLC

CONSTANTS u1, u2, s1, s2, s3, c1, c2, c3, r1

\* Account u1 has two computers, account u2 has one, one handler each.
MCOwnerOf == s1 :> u1 @@ s2 :> u1 @@ s3 :> u2
MCSessionOf == c1 :> s1 @@ c2 :> s2 @@ c3 :> s3

\* Whoever asks asks about u1.
MCAskedFor == [r \in Readers |-> u1]

\* One account, two computers; the first may have two handlers at a time.
OneUserOwnerOf == s1 :> u1 @@ s2 :> u1
OverlapSessionOf == c1 :> s1 @@ c2 :> s2 @@ c3 :> s1
=============================================================================
