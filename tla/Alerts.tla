-------------------------------- MODULE Alerts --------------------------------
(***************************************************************************)
(* The mouse follow verification alert of one account                      *)
(* (internal/notification/service.go).  Once a second a scan asks the      *)
(* database for the rule and the sessions that monitor, asks the hub what  *)
(* these sessions report, and either reserves and pushes an alert or ends  *)
(* the event cycle; the first alert of a cycle makes sound.  The owner's   *)
(* requests and the reports of the devices come between its steps.  The    *)
(* rune alert is the same with a longer interval.                          *)
(*                                                                         *)
(* A scan is a step for each statement and each look at the hub.  Time     *)
(* passes between any two of them; it counts seconds.  A push leaves in a  *)
(* goroutine of its own, and what Bark makes of it is left out.  Reserving *)
(* an alert and starting its push are one step, at the time reserved.      *)
(***************************************************************************)
EXTENDS Naturals

CONSTANTS
  Sessions,  \* the sessions of the account
  Interval,  \* MouseFollowVerificationIntervalSeconds
  Window,    \* MouseFollowVerificationFreshnessWindow
  Never,     \* NULL
  NoScan,    \* no scan is running
  NoRule,    \* the account has no row for the rule
  MaxTime    \* bound on the time

ASSUME AlertAssumption ==
  /\ Interval \in Nat \ {0} /\ Window \in Nat /\ MaxTime \in Nat
  /\ Never \notin Nat
  /\ NoRule \notin [enabled : BOOLEAN, sentAt : Nat \cup {Never}]

VARIABLES
  now,
  online,    \* external: sessions whose device is connected
  report,    \* external: what the hub has of each session
  monitored, \* sessions that monitor according to monitor_sessions
  bark,      \* the account has an enabled channel
  muted,     \* notification_channels.urgent_alerts_muted
  rule,      \* the row of notification_rules
  scan,      \* what the running scan knows
  cycle      \* history: when the last push was, whether one of the cycle made
             \* sound, what ended the cycle since, and whether one was pushed
             \* since the owner switched the alert off

devices == <<online, report, monitored>>
settings == <<bark, muted>>
vars == <<now, devices, settings, rule, scan, cycle>>

Time == 0..MaxTime

NoReport == [detected |-> FALSE, at |-> 0]

Init ==
  /\ now = 0
  /\ online = {} /\ monitored = {}
  /\ report = [s \in Sessions |-> NoReport]
  /\ bark = FALSE /\ muted = FALSE
  /\ rule = NoRule /\ scan = NoScan
  /\ cycle = [last |-> Never, sounded |-> FALSE, ended |-> "no", late |-> FALSE]

-----------------------------------------------------------------------------
(***************************************************************************)
(* The owner.                                                              *)
(***************************************************************************)
EndedBy(what) == [cycle EXCEPT !.sounded = FALSE, !.ended = what]

\* The alert is on once Bark is configured; a rule that exists stays.
SaveBark ==
  /\ bark' = TRUE
  /\ rule' = IF rule = NoRule THEN [enabled |-> TRUE, sentAt |-> Never] ELSE rule
  /\ UNCHANGED <<now, devices, muted, scan, cycle>>

SetMouseFollowVerificationEnabled(enabled) ==
  /\ enabled => bark
  /\ rule' = [enabled |-> enabled,
              sentAt |-> IF enabled \/ rule = NoRule THEN Never ELSE rule.sentAt]
  /\ cycle' = IF enabled THEN [EndedBy("enabled") EXCEPT !.late = FALSE] ELSE cycle
  /\ UNCHANGED <<now, devices, settings, scan>>

SetUrgentAlertsMuted(m) ==
  /\ bark
  /\ muted' = m
  /\ UNCHANGED <<now, devices, bark, rule, scan, cycle>>

-----------------------------------------------------------------------------
(***************************************************************************)
(* processDueMouseFollowVerifications.                                     *)
(***************************************************************************)
\* mouseFollowVerificationActive, of a session that is online.
ActiveReport(s, at) ==
  /\ s \in online /\ report[s].detected
  /\ at <= report[s].at + Window /\ report[s].at <= at + Window

\* Mutant: due a second early.
DueEarly(sentAt, at) == sentAt # Never => at + 1 - sentAt >= Interval

\* alertNotificationDue.
Due(sentAt, at) == sentAt # Never => at - sentAt >= Interval

\* Mutant: the query takes rules that are switched off.
AnyRule == rule # NoRule

ScannedRule == rule # NoRule /\ rule.enabled

\* The query.  Without a session the rule is examined all the same.
ScanRead ==
  /\ scan = NoScan
  /\ bark /\ ScannedRule
  /\ scan' = [pc |-> "examine", sentAt |-> rule.sentAt, muted |-> muted,
              rows |-> monitored, at |-> 0]
  /\ UNCHANGED <<now, devices, settings, rule, cycle>>

\* The first session, in the order of the query, that reports the event.
Examine ==
  /\ scan # NoScan /\ scan.pc = "examine"
  /\ LET active == {s \in scan.rows : ActiveReport(s, now)}
     IN  \/ /\ active = {}
            /\ scan' = [scan EXCEPT !.pc = "reset"]
         \/ /\ active # {} /\ ~Due(scan.sentAt, now)
            /\ scan' = NoScan
         \/ /\ active # {} /\ Due(scan.sentAt, now)
            /\ \E s \in active :
                 scan' = [scan EXCEPT !.pc = "send", !.rows = {s}, !.at = now]
  /\ UNCHANGED <<now, devices, settings, rule, cycle>>

\* sendMouseFollowVerification looks at the hub again, with the time of Examine.
SendMouseFollowVerification ==
  /\ scan # NoScan /\ scan.pc = "send"
  /\ scan' = IF \A s \in scan.rows : ActiveReport(s, scan.at)
             THEN [scan EXCEPT !.pc = "reserve"]
             ELSE NoScan
  /\ UNCHANGED <<now, devices, settings, rule, cycle>>

\* Mutant: the time of the next push is stored.
ReservedNext == now + Interval

ReservedAt == now

\* Mutant: only muting matters.
SoundsUnlessMuted == ~scan.muted

\* urgentAlertVolume.
Sounds == scan.sentAt = Never /\ ~scan.muted

\* The reservation, which finds nothing to update when the rule is switched off
\* by now, and the push.
Push ==
  /\ scan # NoScan /\ scan.pc = "reserve"
  /\ scan' = NoScan
  /\ rule' = IF rule.enabled THEN [rule EXCEPT !.sentAt = ReservedAt] ELSE rule
  /\ cycle' = [last |-> now, sounded |-> cycle.sounded \/ Sounds, ended |-> "no",
               late |-> ~rule.enabled]
  /\ UNCHANGED <<now, devices, settings>>

\* Mutant: the cycle goes on.
ResetNothing == rule.sentAt

ResetTo == Never

\* No session reports the event: the next one that does makes sound again.
ResetAlertCycle ==
  /\ scan # NoScan /\ scan.pc = "reset"
  /\ scan' = NoScan
  /\ rule' = [rule EXCEPT !.sentAt = ResetTo]
  /\ cycle' = EndedBy("clear")
  /\ UNCHANGED <<now, devices, settings>>

-----------------------------------------------------------------------------
(***************************************************************************)
(* Restart, devices and time.                                              *)
(***************************************************************************)
Restart ==
  /\ scan' = NoScan /\ online' = {}
  /\ report' = [s \in Sessions |-> NoReport]
  /\ UNCHANGED <<now, monitored, settings, rule, cycle>>

\* A device connects, or is lost; what it reported last stays.
Connect(s) ==
  /\ online' = IF s \in online THEN online \ {s} ELSE online \cup {s}
  /\ UNCHANGED <<now, report, monitored, settings, rule, scan, cycle>>

\* It starts or stops to monitor.
ClientState(s) ==
  /\ s \in online
  /\ monitored' = IF s \in monitored THEN monitored \ {s} ELSE monitored \cup {s}
  /\ UNCHANGED <<now, online, report, settings, rule, scan, cycle>>

\* It reports that the event is there, or is over.
Verification(s, detected) ==
  /\ s \in online
  /\ report' = [report EXCEPT ![s] = [detected |-> detected, at |-> now]]
  /\ UNCHANGED <<now, online, monitored, settings, rule, scan, cycle>>

Tick ==
  /\ now < MaxTime /\ now' = now + 1
  /\ UNCHANGED <<devices, settings, rule, scan, cycle>>

OwnerStep ==
  \/ SaveBark
  \/ \E b \in BOOLEAN : SetMouseFollowVerificationEnabled(b) \/ SetUrgentAlertsMuted(b)

ScanStep == ScanRead \/ Examine \/ SendMouseFollowVerification \/ Push \/ ResetAlertCycle

DeviceStep ==
  \E s \in Sessions :
    Connect(s) \/ ClientState(s) \/ \E b \in BOOLEAN : Verification(s, b)

Next == OwnerStep \/ ScanStep \/ DeviceStep \/ Restart \/ Tick

Spec == Init /\ [][Next]_vars

-----------------------------------------------------------------------------
(***************************************************************************)
(* Properties.                                                             *)
(***************************************************************************)
\* The type invariant.
TypeOK ==
  /\ now \in Time
  /\ online \subseteq Sessions /\ monitored \subseteq Sessions
  /\ report \in [Sessions -> [detected : BOOLEAN, at : Time]]
  /\ bark \in BOOLEAN /\ muted \in BOOLEAN
  /\ rule \in {NoRule} \cup [enabled : BOOLEAN, sentAt : Time \cup {Never}]
  /\ scan \in {NoScan}
       \cup [pc : {"examine", "send", "reserve", "reset"}, sentAt : Time \cup {Never},
             muted : BOOLEAN, rows : SUBSET Sessions, at : Time]
  /\ cycle \in [last : Time \cup {Never}, sounded : BOOLEAN,
                ended : {"no", "enabled", "clear"}, late : BOOLEAN]

\* Alerts of one cycle are an interval apart, whatever the owner does while a
\* scan is between its statements, and across restarts.
Spaced == [][Push /\ cycle.ended = "no" /\ cycle.last # Never
               => now - cycle.last >= Interval]_vars

\* At most one alert of a cycle makes sound ("repeated critical alerts are always
\* silent", service.go:276-277), and when a scan saw that the event was over the
\* next one does, unless the owner muted it (service.go:642-643).
SoundOnce ==
  [][Push => /\ Sounds => ~cycle.sounded
             /\ cycle.ended = "clear" => Sounds \/ scan.muted]_vars

\* After the owner switched the alert off at most one more is pushed, by the
\* scan that was under way.
OneLateAlert == [][Push /\ ~rule.enabled => ~cycle.late]_vars
=============================================================================
