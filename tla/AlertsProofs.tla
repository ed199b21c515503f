----------------------------- MODULE AlertsProofs -----------------------------
(***************************************************************************)
(* Theorems about Alerts, for any number of sessions, any interval, any    *)
(* freshness window and any bound on the time.                             *)
(***************************************************************************)
EXTENDS Alerts, TLAPS

\* What the rule, and a scan that read it, know of the event cycle: the time of
\* its last alert, until the owner switches the alert on again.
RuleKnows ==
  /\ rule = NoRule => cycle.last = Never /\ ~cycle.late
  /\ rule # NoRule /\ rule.enabled /\ cycle.ended = "no" => rule.sentAt = cycle.last
  /\ rule # NoRule /\ cycle.ended # "no" => rule.sentAt = Never

ScanKnows ==
  scan # NoScan =>
    /\ rule # NoRule /\ ~cycle.late
    /\ cycle.ended = "no" => scan.sentAt = cycle.last
    /\ cycle.ended = "clear" => scan.sentAt = Never

\* A scan that is about to push found the alert due, not later than now.
WasDue ==
  scan # NoScan /\ scan.pc \in {"send", "reserve"} =>
    scan.at <= now /\ Due(scan.sentAt, scan.at)

\* Nothing has made sound before the first alert of a cycle.
SilentBefore == cycle.ended # "no" \/ cycle.last = Never => ~cycle.sounded

\* After an alert that came too late nothing is scanned until the alert is
\* switched on again.
LateIsOff == cycle.late /\ rule # NoRule => ~rule.enabled

AlertInv == TypeOK /\ RuleKnows /\ ScanKnows /\ WasDue /\ SilentBefore /\ LateIsOff

-----------------------------------------------------------------------------
RuleRow == [enabled : BOOLEAN, sentAt : Time \cup {Never}]
Scans ==
  [pc : {"examine", "send", "reserve", "reset"}, sentAt : Time \cup {Never},
   muted : BOOLEAN, rows : SUBSET Sessions, at : Time]
Cycles ==
  [last : Time \cup {Never}, sounded : BOOLEAN,
   ended : {"no", "enabled", "clear"}, late : BOOLEAN]

\* The types of the records.
LEMMA Rows ==
  ASSUME TypeOK
  PROVE  /\ rule = NoRule \/ rule \in RuleRow
         /\ scan = NoScan \/ scan \in Scans
         /\ cycle \in Cycles
         /\ now \in Nat /\ MaxTime \in Nat /\ now <= MaxTime /\ now \in Time
         /\ Never \notin Time /\ \A t \in Time : t \in Nat
BY AlertAssumption DEF TypeOK, RuleRow, Scans, Cycles, Time

LEMMA NoRuleIsNone ==
  ASSUME NEW r \in RuleRow
  PROVE  r # NoRule
BY AlertAssumption DEF RuleRow, Time

LEMMA AlertInit == Init => AlertInv
<1> SUFFICES ASSUME Init
             PROVE  AlertInv
  OBVIOUS
<1>1. /\ cycle \in Cycles /\ cycle.last = Never /\ ~cycle.late /\ ~cycle.sounded
      /\ cycle.ended = "no"
  BY DEF Init, Cycles
<1>2. report \in [Sessions -> [detected : BOOLEAN, at : Time]] /\ 0 \in Time
  BY AlertAssumption DEF Init, NoReport, Time
<1>3. TypeOK
  BY <1>1, <1>2 DEF Init, TypeOK, Cycles
<1>4. rule = NoRule /\ scan = NoScan
  BY DEF Init
<1> QED BY <1>1, <1>3, <1>4 DEF AlertInv, RuleKnows, ScanKnows, WasDue, SilentBefore, LateIsOff

\* A step that leaves the alert and its scan alone, and time passes at most.
LEMMA Untouched ==
  ASSUME AlertInv, UNCHANGED <<rule, scan, cycle>>, TypeOK', now <= now'
  PROVE  AlertInv'
<1>1. now \in Nat /\ now' \in Nat /\ (scan # NoScan => scan.at \in Nat)
  BY Rows DEF AlertInv, TypeOK, Scans, Time
<1> QED BY <1>1 DEF AlertInv, RuleKnows, ScanKnows, WasDue, SilentBefore, LateIsOff, Due

-----------------------------------------------------------------------------
\* A new rule, or one that is there, for the owner's requests.
LEMMA OwnerKeeps ==
  ASSUME AlertInv, OwnerStep
  PROVE  AlertInv'
<1> USE DEF AlertInv
<1>0. /\ rule = NoRule \/ rule \in RuleRow
      /\ cycle \in Cycles
  BY Rows
<1>1. CASE SaveBark
  <2>1. /\ bark' = TRUE /\ UNCHANGED <<now, online, report, monitored, muted, scan, cycle>>
        /\ rule' = IF rule = NoRule THEN [enabled |-> TRUE, sentAt |-> Never] ELSE rule
    BY <1>1 DEF SaveBark, devices
  <2>2. CASE rule # NoRule
    <3>1. TypeOK'
      BY <2>1, <2>2 DEF TypeOK
    <3> QED BY <2>1, <2>2, <3>1, Rows, Untouched
  <2>3. CASE rule = NoRule
    <3>1. rule' \in RuleRow /\ rule'.sentAt = Never
      BY <2>1, <2>3 DEF RuleRow
    <3>2. TypeOK'
      BY <2>1, <3>1 DEF TypeOK, RuleRow
    <3>3. rule' # NoRule
      BY <3>1, NoRuleIsNone
    <3>4. scan = NoScan /\ cycle.last = Never /\ ~cycle.late
      BY <2>3 DEF RuleKnows, ScanKnows
    <3> QED BY <2>1, <3>1, <3>2, <3>3, <3>4
            DEF RuleKnows, ScanKnows, WasDue, SilentBefore, LateIsOff
  <2> QED BY <2>2, <2>3
<1>2. ASSUME NEW b \in BOOLEAN, SetMouseFollowVerificationEnabled(b)
      PROVE  AlertInv'
  <2>1. /\ UNCHANGED <<now, online, report, monitored, bark, muted, scan>>
        /\ rule' = [enabled |-> b,
                    sentAt |-> IF b \/ rule = NoRule THEN Never ELSE rule.sentAt]
        /\ cycle' = IF b THEN [EndedBy("enabled") EXCEPT !.late = FALSE] ELSE cycle
    BY <1>2 DEF SetMouseFollowVerificationEnabled, devices, settings
  <2>2. /\ rule' \in RuleRow /\ rule'.enabled = b
        /\ b \/ rule = NoRule => rule'.sentAt = Never
        /\ ~b /\ rule # NoRule => rule'.sentAt = rule.sentAt
    BY <1>0, <2>1 DEF RuleRow
  <2>3. rule' # NoRule
    BY <2>2, NoRuleIsNone
  <2>4. CASE b
    <3>1. /\ cycle' \in Cycles /\ cycle'.ended = "enabled" /\ ~cycle'.sounded /\ ~cycle'.late
      BY <1>0, <2>1, <2>4 DEF EndedBy, Cycles
    <3>2. TypeOK'
      BY <2>1, <2>2, <3>1 DEF TypeOK, RuleRow, Cycles
    <3>3. RuleKnows' /\ SilentBefore' /\ LateIsOff'
      BY <2>2, <2>3, <2>4, <3>1 DEF RuleKnows, SilentBefore, LateIsOff
    <3>4. ScanKnows' /\ WasDue'
      BY <2>1, <2>3, <3>1 DEF ScanKnows, WasDue, Due
    <3> QED BY <3>2, <3>3, <3>4
  <2>5. CASE ~b
    <3>1. cycle' = cycle
      BY <2>1, <2>5
    <3>2. TypeOK'
      BY <2>1, <2>2, <3>1 DEF TypeOK, RuleRow
    <3>3. RuleKnows' /\ SilentBefore' /\ LateIsOff'
      BY <2>2, <2>3, <2>5, <3>1 DEF RuleKnows, SilentBefore, LateIsOff
    <3>4. ScanKnows' /\ WasDue'
      BY <2>1, <2>3, <3>1 DEF ScanKnows, WasDue, Due
    <3> QED BY <3>2, <3>3, <3>4
  <2> QED BY <2>4, <2>5
<1>3. ASSUME NEW b \in BOOLEAN, SetUrgentAlertsMuted(b)
      PROVE  AlertInv'
  <2>1. TypeOK' /\ UNCHANGED <<now, rule, scan, cycle>>
    BY <1>3 DEF SetUrgentAlertsMuted, TypeOK, devices
  <2> QED BY <2>1, Rows, Untouched
<1> QED BY <1>1, <1>2, <1>3 DEF OwnerStep

-----------------------------------------------------------------------------
LEMMA ScanKeeps ==
  ASSUME AlertInv, ScanStep
  PROVE  AlertInv'
<1> USE DEF AlertInv
<1>0. /\ rule = NoRule \/ rule \in RuleRow
      /\ scan = NoScan \/ scan \in Scans
      /\ cycle \in Cycles
      /\ now \in Nat /\ now \in Time /\ 0 \in Time
      /\ Never \notin Time
  BY Rows, AlertAssumption DEF Time
<1>1. CASE ScanRead
  <2>1. /\ rule # NoRule /\ rule.enabled /\ rule \in RuleRow
        /\ scan' = [pc |-> "examine", sentAt |-> rule.sentAt, muted |-> muted,
                    rows |-> monitored, at |-> 0]
        /\ UNCHANGED <<now, online, report, monitored, bark, muted, rule, cycle>>
    BY <1>0, <1>1 DEF ScanRead, ScannedRule, devices, settings
  <2>2. scan' \in Scans /\ scan'.pc = "examine" /\ scan'.sentAt = rule.sentAt
    BY <1>0, <2>1 DEF Scans, RuleRow, TypeOK
  <2>3. TypeOK'
    BY <2>1, <2>2 DEF TypeOK, Scans
  <2>4. ScanKnows' /\ WasDue'
    BY <2>1, <2>2 DEF ScanKnows, WasDue, RuleKnows, LateIsOff
  <2>5. RuleKnows' /\ SilentBefore' /\ LateIsOff'
    BY <2>1 DEF RuleKnows, SilentBefore, LateIsOff
  <2> QED BY <2>3, <2>4, <2>5
<1>2. CASE Examine \/ SendMouseFollowVerification
  <2>1. /\ scan # NoScan /\ scan \in Scans
        /\ UNCHANGED <<now, online, report, monitored, bark, muted, rule, cycle>>
    BY <1>0, <1>2 DEF Examine, SendMouseFollowVerification, devices, settings
  <2>2. RuleKnows' /\ SilentBefore' /\ LateIsOff'
    BY <2>1 DEF RuleKnows, SilentBefore, LateIsOff
  <2>3. \/ scan' = NoScan
        \/ scan' = [scan EXCEPT !.pc = "reset"]
        \/ \E s \in scan.rows :
             /\ scan' = [scan EXCEPT !.pc = "send", !.rows = {s}, !.at = now]
             /\ Due(scan.sentAt, now)
        \/ scan' = [scan EXCEPT !.pc = "reserve"] /\ scan.pc = "send"
    BY <1>2 DEF Examine, SendMouseFollowVerification
  <2>4. CASE scan' = NoScan
    <3>1. TypeOK' /\ ScanKnows' /\ WasDue'
      BY <2>1, <2>4 DEF TypeOK, ScanKnows, WasDue
    <3> QED BY <2>2, <3>1
  <2>5. CASE scan' = [scan EXCEPT !.pc = "reset"]
    <3>1. scan' \in Scans /\ scan'.pc = "reset" /\ scan'.sentAt = scan.sentAt
      BY <2>1, <2>5 DEF Scans
    <3>2. TypeOK' /\ ScanKnows' /\ WasDue'
      BY <2>1, <3>1 DEF TypeOK, ScanKnows, WasDue, Scans
    <3> QED BY <2>2, <3>2
  <2>6. ASSUME NEW s \in scan.rows,
               scan' = [scan EXCEPT !.pc = "send", !.rows = {s}, !.at = now],
               Due(scan.sentAt, now)
        PROVE  AlertInv'
    <3>1. /\ scan' \in Scans /\ scan'.sentAt = scan.sentAt /\ scan'.at = now
      BY <1>0, <2>1, <2>6 DEF Scans
    <3>2. TypeOK'
      BY <2>1, <3>1 DEF TypeOK, Scans
    <3>3. ScanKnows' /\ WasDue'
      BY <1>0, <2>1, <2>6, <3>1 DEF ScanKnows, WasDue, Due
    <3> QED BY <2>2, <3>2, <3>3
  <2>7. CASE scan' = [scan EXCEPT !.pc = "reserve"] /\ scan.pc = "send"
    <3>1. scan' \in Scans /\ scan'.sentAt = scan.sentAt /\ scan'.at = scan.at
      BY <2>1, <2>7 DEF Scans
    <3>2. TypeOK'
      BY <2>1, <3>1 DEF TypeOK, Scans
    <3>3. ScanKnows' /\ WasDue'
      BY <2>1, <2>7, <3>1 DEF ScanKnows, WasDue, Due
    <3> QED BY <2>2, <3>2, <3>3
  <2> QED BY <2>3, <2>4, <2>5, <2>6, <2>7
<1>3. CASE Push
  <2>1. /\ scan # NoScan /\ scan \in Scans /\ scan' = NoScan
        /\ rule # NoRule /\ rule \in RuleRow /\ ~cycle.late
        /\ rule' = IF rule.enabled THEN [rule EXCEPT !.sentAt = now] ELSE rule
        /\ cycle' = [last |-> now, sounded |-> cycle.sounded \/ Sounds, ended |-> "no",
                     late |-> ~rule.enabled]
        /\ UNCHANGED <<now, online, report, monitored, bark, muted>>
    BY <1>0, <1>3 DEF Push, ReservedAt, ScanKnows, devices, settings
  <2>2. /\ rule' \in RuleRow /\ rule'.enabled = rule.enabled
        /\ rule.enabled => rule'.sentAt = now
    BY <1>0, <2>1 DEF RuleRow
  <2>3. rule' # NoRule
    BY <2>2, NoRuleIsNone
  <2>4. /\ cycle'.last = now /\ cycle'.ended = "no" /\ cycle'.late = ~rule.enabled
        /\ cycle' \in Cycles
    <3>1. (cycle.sounded \/ Sounds) \in BOOLEAN /\ (~rule.enabled) \in BOOLEAN
      BY <1>0, <2>1 DEF Cycles, Sounds, RuleRow
    <3> QED BY <1>0, <2>1, <3>1 DEF Cycles
  <2>5. TypeOK'
    BY <2>1, <2>2, <2>4 DEF TypeOK, RuleRow, Cycles
  <2>6. RuleKnows' /\ SilentBefore' /\ LateIsOff'
    BY <1>0, <2>2, <2>3, <2>4 DEF RuleKnows, SilentBefore, LateIsOff
  <2>7. ScanKnows' /\ WasDue'
    BY <2>1 DEF ScanKnows, WasDue
  <2> QED BY <2>5, <2>6, <2>7
<1>4. CASE ResetAlertCycle
  <2>1. /\ scan # NoScan /\ scan' = NoScan
        /\ rule # NoRule /\ rule \in RuleRow /\ ~cycle.late
        /\ rule' = [rule EXCEPT !.sentAt = Never]
        /\ cycle' = [cycle EXCEPT !.sounded = FALSE, !.ended = "clear"]
        /\ UNCHANGED <<now, online, report, monitored, bark, muted>>
    BY <1>0, <1>4 DEF ResetAlertCycle, ResetTo, EndedBy, ScanKnows, devices, settings
  <2>2. /\ rule' \in RuleRow /\ rule'.sentAt = Never
        /\ cycle' \in Cycles /\ ~cycle'.sounded /\ cycle'.ended = "clear" /\ ~cycle'.late
    BY <1>0, <2>1 DEF RuleRow, Cycles
  <2>3. rule' # NoRule
    BY <2>2, NoRuleIsNone
  <2>4. TypeOK'
    BY <2>1, <2>2 DEF TypeOK, RuleRow, Cycles
  <2>5. RuleKnows' /\ SilentBefore' /\ LateIsOff' /\ ScanKnows' /\ WasDue'
    BY <2>1, <2>2, <2>3 DEF RuleKnows, SilentBefore, LateIsOff, ScanKnows, WasDue
  <2> QED BY <2>4, <2>5
<1> QED BY <1>1, <1>2, <1>3, <1>4 DEF ScanStep

-----------------------------------------------------------------------------
LEMMA AlertStep == AlertInv /\ [Next]_vars => AlertInv'
<1> SUFFICES ASSUME AlertInv, [Next]_vars
             PROVE  AlertInv'
  OBVIOUS
<1> USE DEF AlertInv
<1>0. now \in Nat /\ now \in Time /\ 0 \in Time /\ MaxTime \in Nat
  BY Rows, AlertAssumption DEF Time
<1>1. CASE OwnerStep
  BY <1>1, OwnerKeeps
<1>2. CASE ScanStep
  BY <1>2, ScanKeeps
<1>3. ASSUME NEW s \in Sessions, NEW b \in BOOLEAN,
             Connect(s) \/ ClientState(s) \/ Verification(s, b)
      PROVE  AlertInv'
  <2>1. TypeOK' /\ UNCHANGED <<now, rule, scan, cycle>>
    <3>1. CASE Connect(s) \/ ClientState(s)
      BY <3>1 DEF Connect, ClientState, TypeOK, settings
    <3>2. CASE Verification(s, b)
      BY <1>0, <3>2 DEF Verification, TypeOK, settings
    <3> QED BY <1>3, <3>1, <3>2
  <2> QED BY <1>0, <2>1, Untouched
<1>4. CASE Restart
  <2>1. /\ TypeOK' /\ UNCHANGED <<now, rule, cycle>> /\ scan' = NoScan
    BY <1>0, <1>4 DEF Restart, TypeOK, settings, NoReport
  <2> QED BY <2>1 DEF RuleKnows, ScanKnows, WasDue, SilentBefore, LateIsOff
<1>5. CASE Tick
  <2>1. TypeOK' /\ UNCHANGED <<rule, scan, cycle>> /\ now <= now'
    BY <1>0, <1>5 DEF Tick, TypeOK, Time, devices, settings
  <2> QED BY <2>1, Untouched
<1>6. CASE UNCHANGED vars
  <2>1. TypeOK' /\ UNCHANGED <<now, rule, scan, cycle>>
    BY <1>6 DEF vars, TypeOK, devices, settings
  <2> QED BY <1>0, <2>1, Untouched
<1> QED BY <1>1, <1>2, <1>3, <1>4, <1>5, <1>6 DEF Next, DeviceStep

\* The inductive invariant: what the rule and a scan know of the history.
THEOREM AlertInvariant == Spec => []AlertInv
BY AlertInit, AlertStep, PTL DEF Spec

\* The rule, the scan and the history keep their types.
THEOREM AlertsTypeOK == Spec => []TypeOK
<1>1. AlertInv => TypeOK
  BY DEF AlertInv
<1> QED BY <1>1, AlertInvariant, PTL

-----------------------------------------------------------------------------
\* What a push finds.
LEMMA PushFinds ==
  ASSUME AlertInv, Push
  PROVE  /\ cycle.ended = "no" /\ cycle.last # Never => now - cycle.last >= Interval
         /\ Sounds => ~cycle.sounded
         /\ cycle.ended = "clear" => Sounds \/ scan.muted
         /\ ~cycle.late
<1>0. /\ scan # NoScan /\ scan \in Scans /\ scan.pc = "reserve" /\ cycle \in Cycles
      /\ now \in Nat /\ \A t \in Time : t \in Nat
  BY Rows DEF AlertInv, Push
<1>1. /\ ~cycle.late
      /\ cycle.ended = "no" => scan.sentAt = cycle.last
      /\ cycle.ended = "clear" => scan.sentAt = Never
      /\ scan.at <= now /\ Due(scan.sentAt, scan.at)
  BY <1>0 DEF AlertInv, ScanKnows, WasDue
<1>2. ASSUME cycle.ended = "no", cycle.last # Never
      PROVE  now - cycle.last >= Interval
  <2>1. scan.at \in Nat /\ cycle.last \in Nat /\ Interval \in Nat
    BY <1>0, <1>2, AlertAssumption DEF Scans, Cycles
  <2>2. scan.at - cycle.last >= Interval
    BY <1>1, <1>2 DEF Due
  <2> QED BY <1>0, <1>1, <2>1, <2>2
<1>3. Sounds => ~cycle.sounded
  BY <1>0, <1>1 DEF AlertInv, SilentBefore, Sounds, Cycles
<1>4. cycle.ended = "clear" => Sounds \/ scan.muted
  BY <1>1 DEF Sounds
<1> QED BY <1>1, <1>2, <1>3, <1>4

\* Two alerts of one cycle are an interval apart (alertNotificationDue and the
\* reservation, whatever happens between them).
THEOREM AlertsSpaced == Spec => Spaced
<1>1. AlertInv /\ [Next]_vars =>
        (Push /\ cycle.ended = "no" /\ cycle.last # Never => now - cycle.last >= Interval)
  BY PushFinds
<1> QED BY <1>1, AlertInvariant, PTL DEF Spec, Spaced

\* One alert of a cycle makes sound, and the first after the end of one does.
THEOREM AlertsSoundOnce == Spec => SoundOnce
<1>1. AlertInv /\ [Next]_vars =>
        (Push => /\ Sounds => ~cycle.sounded
                 /\ cycle.ended = "clear" => Sounds \/ scan.muted)
  BY PushFinds
<1> QED BY <1>1, AlertInvariant, PTL DEF Spec, SoundOnce

\* One alert at most follows the owner's switching it off.
THEOREM AlertsOneLate == Spec => OneLateAlert
<1>1. AlertInv /\ [Next]_vars => (Push /\ ~rule.enabled => ~cycle.late)
  BY PushFinds
<1> QED BY <1>1, AlertInvariant, PTL DEF Spec, OneLateAlert

===============================================================================
