---------------------------- MODULE ActiveMonitor ----------------------------
(***************************************************************************)
(* ActiveMonitorSession of internal/realtime/hub.go, which viewerSession   *)
(* asks for the account's monitor.  It reads the slot under h.mu, releases *)
(* that lock, and reads the room of the slot's owner under room.mu: every  *)
(* section of every device handler may run in between.                     *)
(*                                                                         *)
(* The devices are those of module Hub; a reader changes none of its       *)
(* variables.                                                              *)
(***************************************************************************)
EXTENDS Hub

CONSTANTS
  Readers,   \* callers of ActiveMonitorSession
  AskedFor   \* [Readers -> Users], the account each asks about

ASSUME ActiveMonitorAssumption == AskedFor \in [Readers -> Users]

VARIABLES
  stage,   \* where each call is: none, before its first or second section
  named    \* the session it read from the slot

readerVars == <<stage, named>>
lookupVars == <<vars, readerVars>>

LookupInit ==
  /\ Init
  /\ stage = [r \in Readers |-> "idle"]
  /\ named = [r \in Readers |-> NoSession]

Ask(r) ==
  /\ stage[r] = "idle"
  /\ stage' = [stage EXCEPT ![r] = "slot"]
  /\ UNCHANGED <<vars, named>>

\* The first section; the call returns at once when the slot is empty.
ReadSlot(r) ==
  LET s == activeMonitors[AskedFor[r]] IN
  /\ stage[r] = "slot"
  /\ named' = [named EXCEPT ![r] = s]
  /\ stage' = [stage EXCEPT ![r] = IF s = NoSession THEN "idle" ELSE "room"]
  /\ UNCHANGED vars

\* The second section; the call returns the session and whether it is active.
ReadRoom(r) ==
  /\ stage[r] = "room"
  /\ stage' = [stage EXCEPT ![r] = "idle"]
  /\ named' = [named EXCEPT ![r] = NoSession]
  /\ UNCHANGED vars

\* What a call returns whose last section runs now.
Result(r) ==
  IF stage[r] = "room"
  THEN <<named[r], connected[named[r]] /\ online[named[r]]>>
  ELSE <<NoSession, FALSE>>

LookupNext ==
  \/ Next /\ UNCHANGED readerVars
  \/ \E r \in Readers : Ask(r) \/ ReadSlot(r) \/ ReadRoom(r)

LookupSpec == LookupInit /\ [][LookupNext]_lookupVars

\* The scheduling of the devices is that of the hub.
LookupFairSpec == LookupSpec /\ Fairness

-----------------------------------------------------------------------------
Returns(r) == stage[r] # "idle" /\ stage'[r] = "idle"

\* What ActiveMonitorSession returns about an account is right as long as the
\* slot it read is still the account's slot when it returns: an active device
\* was told it may monitor, and a device that was told so and whose state is
\* stored is returned, as active.  So a device that is accepted from before the
\* slot is read until the return is never overlooked.  When the slot moved
\* between the two sections, the result may be a device that gave the slot back
\* and whose room is still, or after a reconnection again, online.
AnswerExact ==
  [][\A r \in Readers :
       Returns(r) /\ Result(r)[1] = activeMonitors[AskedFor[r]] =>
         /\ Result(r)[2] =>
              \E c \in Conns : SessionOf[c] = Result(r)[1] /\ accepted[c]
         /\ \A c \in Conns :
              UserOf(c) = AskedFor[r] /\ accepted[c] /\ pc[c] = "serving"
                => Result(r) = <<SessionOf[c], TRUE>>]_lookupVars

=============================================================================
