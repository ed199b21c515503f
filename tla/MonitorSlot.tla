----------------------------- MODULE MonitorSlot -----------------------------
(***************************************************************************)
(* What the hub promises about monitor mode, with no rooms, connections or *)
(* locks: every account owns one slot, only the session that holds the     *)
(* slot may be monitoring, and a slot whose session went away is freed.    *)
(* Module Hub implements this specification.                               *)
(***************************************************************************)

CONSTANTS
  Sessions,   \* device sessions: one per (account, computer)
  Users,      \* accounts
  OwnerOf,    \* [Sessions -> Users], the account of each session
  NoSession   \* the empty slot

VARIABLES
  holder,     \* [Users -> Sessions \cup {NoSession}], who owns the slot
  monitors    \* the sessions whose device was told it may monitor

slotVars == <<holder, monitors>>

SlotInit ==
  /\ holder = [u \in Users |-> NoSession]
  /\ monitors = {}

\* A device starts monitoring: the slot is free or already its own.
Acquire(s) ==
  /\ holder[OwnerOf[s]] \in {NoSession, s}
  /\ holder' = [holder EXCEPT ![OwnerOf[s]] = s]
  /\ monitors' = monitors \cup {s}

\* A monitoring device goes away; its slot is still reserved.
Retire(s) ==
  /\ s \in monitors
  /\ monitors' = monitors \ {s}
  /\ UNCHANGED holder

\* The slot is given back, by a stop or by the clean-up of a retired device.
Free(s) ==
  /\ holder[OwnerOf[s]] = s
  /\ holder' = [holder EXCEPT ![OwnerOf[s]] = NoSession]
  /\ monitors' = monitors \ {s}

SlotNext == \E s \in Sessions : Acquire(s) \/ Retire(s) \/ Free(s)

SlotSpec == SlotInit /\ [][SlotNext]_slotVars

\* A retired session's slot does not stay reserved.
SlotFreed ==
  \A s \in Sessions :
    (holder[OwnerOf[s]] = s /\ s \notin monitors)
      ~> (holder[OwnerOf[s]] # s \/ s \in monitors)

\* At most one session of an account monitors.
OneMonitorPerUser ==
  \A s, t \in monitors : OwnerOf[s] = OwnerOf[t] => s = t

=============================================================================
