------------------------------ MODULE BossRound ------------------------------
(***************************************************************************)
(* What the buff cycle of a team promises: rounds that follow one another. *)
(* A round begins with a set of members that owe their buffs, the leader   *)
(* among them; nobody joins that set later; the party is disbanded only    *)
(* when the set is empty; and only a round that is still inviting can be   *)
(* called off.                                                             *)
(***************************************************************************)
EXTENDS Naturals

CONSTANTS Members, Leader

VARIABLES
  phase,  \* idle, inviting, casting or disbanding
  round,  \* the number of the round
  owing   \* the members the round waits for

Init == phase = "idle" /\ round = 0 /\ owing = {}

Begin ==
  /\ phase = "idle" /\ phase' = "inviting"
  /\ round' = round + 1
  /\ owing' \in SUBSET Members /\ Leader \in owing'

CallOff == phase = "inviting" /\ phase' = "idle" /\ UNCHANGED <<round, owing>>

Arrive == phase = "inviting" /\ phase' = "casting" /\ UNCHANGED <<round, owing>>

\* Members cast, or are found away.
Settle == owing' \in SUBSET owing /\ UNCHANGED <<phase, round>>

Disband == phase = "casting" /\ phase' = "disbanding" /\ owing' = {} /\ UNCHANGED round

End == phase = "disbanding" /\ phase' = "idle" /\ UNCHANGED <<round, owing>>

Next == Begin \/ CallOff \/ Arrive \/ Settle \/ Disband \/ End

Spec == Init /\ [][Next]_<<phase, round, owing>>
=============================================================================
