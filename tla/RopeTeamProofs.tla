---------------------------- MODULE RopeTeamProofs ----------------------------
(***************************************************************************)
(* Theorems about RopeTeam, for any number of clients, of teams, of        *)
(* receipts and of handlers between their statements.                      *)
(***************************************************************************)
EXTENDS RopeTeam, TLAPS

\* There is no team, or there is one with a leader.
Owned ==
  /\ team.id = 0 => team = NoTeam
  /\ team.id # 0 => team.leader \in Sessions

\* The rows of rope_join_receipts are exactly the receipts that were applied.
RecordedIsApplied ==
  \A r \in Receipts : applied[r] = IF r \in receipts THEN 1 ELSE 0

TeamInv == TypeOK /\ Owned /\ MarksEarned /\ RecordedIsApplied

States == {"idle", "changing_leader", "busy"}

-----------------------------------------------------------------------------
\* The types of the row, field by field.
LEMMA TeamFields ==
  ASSUME TypeOK
  PROVE  /\ team.id \in 0..MaxTeam /\ team.leader \in Sessions \cup {NoSession}
         /\ team.state \in States /\ team.created \in BOOLEAN
         /\ team.members \subseteq Sessions /\ team.joined \subseteq team.members
BY DEF TypeOK, States

TeamRow ==
  [id : 0..MaxTeam, leader : Sessions \cup {NoSession}, state : States,
   created : BOOLEAN, members : SUBSET Sessions, joined : SUBSET Sessions]

\* No row.
LEMMA NoTeamRow ==
  /\ NoTeam \in TeamRow
  /\ NoTeam.id = 0 /\ NoTeam.created = FALSE /\ NoTeam.joined = {}
  /\ NoTeam.state = "idle" /\ NoTeam.members = {}
BY TeamAssumption DEF NoTeam, TeamRow, States

\* What is sent are commands.
LEMMA ConfigureIsCommands ==
  ASSUME NEW id \in Teams, NEW l, NEW S \in SUBSET Sessions
  PROVE  Configure(id, l, S) \subseteq Commands
BY DEF Configure, Commands

LEMMA DisbandIsCommand ==
  ASSUME NEW m \in Sessions, NEW t \in Teams
  PROVE  Disband(m, t) \in Commands
BY DEF Disband, Commands

LEMMA SendGrows ==
  ASSUME NEW C, C \subseteq Commands, told \subseteq Commands, Send(C)
  PROVE  told' \subseteq Commands /\ told \subseteq told'
BY DEF Send

\* What a step does to the row: it is saved or deleted, or it keeps its leader.
\* A mark that is new was earned.
Kept ==
  /\ team'.id = team.id /\ team'.leader = team.leader
  /\ team' \in TeamRow
  /\ team'.members \subseteq team.members
  /\ team'.joined \subseteq team'.members
  /\ team'.created => team.created \/ Got(team.leader, team.id, "lead")
  /\ \A m \in team'.joined :
       m \in team.joined \/ Got(m, team.id, "lead") \/ Got(m, team.id, "follow")

Resaved ==
  /\ team.state = "idle"
  /\ \E id \in Teams, l \in Sessions, S \in SUBSET Sessions, state \in States :
       (team.id # 0 => id = team.id) /\ team' = Saved(id, l, S, state)

Effect ==
  /\ UNCHANGED team \/ team' = NoTeam \/ Resaved \/ (team.id # 0 /\ Kept)
  /\ told \subseteq told' /\ told' \subseteq Commands

-----------------------------------------------------------------------------
\* A step that changes neither the row nor what clients were told.
LEMMA NoEffect ==
  ASSUME TypeOK, UNCHANGED team, told \subseteq told', told' \subseteq Commands
  PROVE  Effect
BY DEF Effect

\* A step that changes only the state and the mark "created", which goes.
LEMMA StateEffect ==
  ASSUME TypeOK, team.id # 0, UNCHANGED told, NEW state \in States,
         \/ team' = [team EXCEPT !.state = state]
         \/ team' = [team EXCEPT !.created = FALSE, !.state = state]
         \/ team' = [team EXCEPT !.state = state, !.created = FALSE, !.joined = {}]
  PROVE  Effect
<1>1. team \in TeamRow /\ team.joined \subseteq team.members /\ told \subseteq Commands
  BY DEF TypeOK, TeamRow, States
<1>2. /\ team'.id = team.id /\ team'.leader = team.leader
      /\ team'.members = team.members
      /\ team'.joined \subseteq team.joined
      /\ team' \in TeamRow
      /\ team'.created = team.created \/ team'.created = FALSE
  BY <1>1 DEF TeamRow
<1>3. Kept
  BY <1>1, <1>2 DEF Kept, TeamRow
<1> QED BY <1>1, <1>3 DEF Effect

\* A step that marks a member as joined, the leader perhaps as having created.
LEMMA MarkEffect ==
  ASSUME TypeOK, team.id # 0, UNCHANGED told, NEW m \in team.members,
         \/ /\ team' = [team EXCEPT !.joined = @ \cup {m}]
            /\ Got(m, team.id, "lead") \/ Got(m, team.id, "follow")
         \/ /\ team' = [team EXCEPT !.created = TRUE, !.joined = @ \cup {m}]
            /\ Got(m, team.id, "lead") /\ team.leader = m
  PROVE  Effect
<1>1. team \in TeamRow /\ team.joined \subseteq team.members /\ told \subseteq Commands
  BY DEF TypeOK, TeamRow, States
<1>2. /\ team'.id = team.id /\ team'.leader = team.leader
      /\ team'.members = team.members
      /\ team'.joined = team.joined \cup {m}
      /\ team' \in TeamRow
      /\ team'.created = team.created \/ Got(team.leader, team.id, "lead")
      /\ Got(m, team.id, "lead") \/ Got(m, team.id, "follow")
  BY <1>1 DEF TeamRow
<1>3. Kept
  BY <1>1, <1>2 DEF Kept
<1> QED BY <1>1, <1>3 DEF Effect

-----------------------------------------------------------------------------
LEMMA SaveEffect ==
  ASSUME TypeOK, Owned, NEW l \in Sessions, NEW S \in SUBSET Sessions, SaveRopeTeam(l, S)
  PROVE  Effect
<1>0. told \subseteq Commands /\ (team.id # 0 => team.id \in Teams /\ team.leader \in Sessions)
  BY TeamFields, TeamAssumption DEF TypeOK, Owned, Teams
<1>1. CASE SaveNew(l, S)
  <2>1. team.id = 0 /\ team.state = "idle"
    BY <1>1, NoTeamRow DEF SaveNew, Owned
  <2>2. last + 1 \in Teams
    BY <1>1, TeamAssumption DEF SaveNew, TypeOK, Teams
  <2>3. Resaved
    BY <1>1, <2>1, <2>2 DEF SaveNew, Resaved, States
  <2>4. told \subseteq told' /\ told' \subseteq Commands
    BY <1>0, <1>1, <2>2, ConfigureIsCommands, SendGrows DEF SaveNew
  <2> QED BY <2>3, <2>4 DEF Effect
<1>2. CASE SaveAgain(l, S)
  <2>1. Resaved
    BY <1>0, <1>2 DEF SaveAgain, MaySave, Resaved, States
  <2>2. told \subseteq told' /\ told' \subseteq Commands
    BY <1>0, <1>2, ConfigureIsCommands, SendGrows DEF SaveAgain, MaySave
  <2> QED BY <2>1, <2>2 DEF Effect
<1>3. CASE SaveLeader(l, S)
  <2>1. Resaved
    BY <1>0, <1>3 DEF SaveLeader, MaySave, Resaved, States
  <2>2. Disband(team.leader, team.id) \in Commands
    BY <1>0, <1>3, DisbandIsCommand DEF SaveLeader, MaySave
  <2>3. told \subseteq told' /\ told' \subseteq Commands
    BY <1>0, <1>3, <2>2 DEF SaveLeader
  <2> QED BY <2>1, <2>3 DEF Effect
<1> QED BY <1>1, <1>2, <1>3 DEF SaveRopeTeam

LEMMA EffectStep ==
  ASSUME TypeOK, Owned, [Next]_vars
  PROVE  Effect
<1>0. /\ told \subseteq Commands /\ team \in TeamRow /\ team.joined \subseteq team.members
      /\ 0 \notin Teams
  BY TeamAssumption DEF TypeOK, TeamRow, States, Teams
<1>1. ASSUME NEW l \in Sessions, NEW S \in SUBSET Sessions, SaveRopeTeam(l, S)
      PROVE  Effect
  BY <1>1, SaveEffect
<1>2. ASSUME NEW t \in Teams, SaveReverted(t) \/ ResetSaved(t)
      PROVE  Effect
  <2>1. UNCHANGED told
    BY <1>2 DEF SaveReverted, ResetSaved
  <2>2. CASE UNCHANGED team
    BY <1>0, <2>1, <2>2, NoEffect
  <2>3. CASE team' # team
    <3>1. /\ team.id = t
          /\ \/ team' = [team EXCEPT !.state = "idle"]
             \/ team' = [team EXCEPT !.created = FALSE, !.state = "idle"]
      BY <1>2, <2>3 DEF SaveReverted, ResetSaved
    <3>2. "idle" \in States
      BY DEF States
    <3> QED BY <1>0, <2>1, <3>1, <3>2, StateEffect
  <2> QED BY <2>2, <2>3
<1>3. CASE DeleteRow
  <2>1. /\ request.team \in Teams /\ request.who \in Sessions
    BY <1>3 DEF DeleteRow, TypeOK
  <2>2. CASE team.id = request.team
    <3>1. team' = NoTeam /\ Send({Disband(request.who, request.team)})
      BY <1>3, <2>2 DEF DeleteRow
    <3>2. told \subseteq told' /\ told' \subseteq Commands
      BY <1>0, <2>1, <3>1, DisbandIsCommand, SendGrows
    <3> QED BY <3>1, <3>2 DEF Effect
  <2>3. CASE team.id # request.team
    BY <1>0, <1>3, <2>3, NoEffect DEF DeleteRow
  <2> QED BY <2>2, <2>3
<1>4. CASE DeleteRead \/ \E m \in Sessions : RemoveRead(m)
  BY <1>0, <1>4, NoEffect DEF DeleteRead, RemoveRead, rows
<1>5. CASE RemoveRow
  <2>1. request.team \in Teams /\ UNCHANGED told
    BY <1>5 DEF RemoveRow, TypeOK
  <2>2. CASE team.id = request.team
    <3>1. team' = [team EXCEPT !.members = @ \ {request.who},
                               !.joined = @ \ {request.who}]
      BY <1>5, <2>2 DEF RemoveRow
    <3>2. /\ team'.id = team.id /\ team'.leader = team.leader
          /\ team'.members = team.members \ {request.who}
          /\ team'.joined = team.joined \ {request.who}
          /\ team'.created = team.created
          /\ team' \in TeamRow
      BY <1>0, <3>1 DEF TeamRow
    <3>3. Kept
      BY <1>0, <3>2 DEF Kept
    <3> QED BY <1>0, <2>1, <2>2, <3>3 DEF Effect
  <2>3. CASE team.id # request.team
    BY <1>0, <1>5, <2>3, NoEffect DEF RemoveRow
  <2> QED BY <2>2, <2>3
<1>6. ASSUME NEW m \in Sessions, NEW t \in Teams, TeamCreated(m, t)
      PROVE  Effect
  <2>1. /\ team.id = t /\ team.leader = m /\ m \in team.members /\ Got(m, team.id, "lead")
        /\ team' = [team EXCEPT !.created = TRUE, !.joined = @ \cup {m}]
        /\ UNCHANGED told
    BY <1>6 DEF TeamCreated, MayCreate
  <2> QED BY <1>0, <2>1, MarkEffect
<1>7. ASSUME NEW m \in Sessions, NEW t \in Teams, TeamJoinedPlain(m, t)
      PROVE  Effect
  <2>1. /\ team.id = t /\ m \in team.members /\ Got(m, team.id, "follow")
        /\ team' = [team EXCEPT !.joined = @ \cup {m}]
        /\ UNCHANGED told
    BY <1>7 DEF TeamJoinedPlain
  <2> QED BY <1>0, <2>1, MarkEffect
<1>8. ASSUME NEW r \in Receipts, TeamJoined(r)
      PROVE  Effect
  <2>1. UNCHANGED told /\ Got(r.from, r.team, "follow") /\ r.team \in Teams
    BY <1>8 DEF TeamJoined, Receipts, Joined
  <2>2. CASE UNCHANGED team
    BY <1>0, <2>1, <2>2, NoEffect
  <2>3. CASE team' # team
    <3>1. /\ team.id = r.team /\ r.from \in team.members
          /\ team' = [team EXCEPT !.joined = @ \cup {r.from}]
      BY <1>8, <2>3 DEF TeamJoined
    <3> QED BY <1>0, <2>1, <3>1, MarkEffect
  <2> QED BY <2>2, <2>3
<1>9. ASSUME NEW m \in Sessions, NEW t \in Teams, DisbandedRead(m, t)
      PROVE  Effect
  BY <1>0, <1>9, NoEffect DEF DisbandedRead, rows
<1>10. ASSUME NEW m \in Sessions, NEW t \in Teams, LeaderChanged(m, t)
       PROVE  Effect
  <2>1. CASE team.id # t
    BY <1>0, <1>10, <2>1, NoEffect DEF LeaderChanged
  <2>2. CASE team.id = t
    <3>1. /\ \/ UNCHANGED team
             \/ team' = [team EXCEPT !.created = FALSE, !.state = "idle"]
          /\ \/ told' = told \cup Configure(t, team.leader, team.members)
             \/ Send(Configure(t, team.leader, team.members))
      BY <1>10, <2>2 DEF LeaderChanged
    <3>2. told \subseteq told' /\ told' \subseteq Commands
      <4>1. Configure(t, team.leader, team.members) \subseteq Commands
        BY <1>0, ConfigureIsCommands DEF TeamRow
      <4> QED BY <1>0, <3>1, <4>1, SendGrows
    <3>3. UNCHANGED team \/ Kept
      <4>1. CASE team' = [team EXCEPT !.created = FALSE, !.state = "idle"]
        <5>1. /\ team'.id = team.id /\ team'.leader = team.leader
              /\ team'.members = team.members /\ team'.joined = team.joined
              /\ team'.created = FALSE /\ team' \in TeamRow
          BY <1>0, <4>1 DEF TeamRow, States
        <5> QED BY <1>0, <5>1 DEF Kept
      <4> QED BY <3>1, <4>1
    <3> QED BY <1>0, <2>2, <3>2, <3>3 DEF Effect
  <2> QED BY <2>1, <2>2
<1>11. ASSUME NEW m \in Sessions, NEW t \in Teams, TeamGone(m, t)
       PROVE  Effect
  BY <1>0, <1>11 DEF TeamGone, Effect
<1>12. CASE CycleStarts \/ CycleReverted \/ CycleEnds
  <2>1. team.id # 0
    BY <1>12, NoTeamRow DEF CycleStarts, CycleReverted, CycleEnds, Owned
  <2>2. /\ UNCHANGED told
        /\ \/ team' = [team EXCEPT !.state = "busy"]
           \/ team' = [team EXCEPT !.state = "idle"]
           \/ team' = [team EXCEPT !.state = "idle", !.created = FALSE, !.joined = {}]
    BY <1>12 DEF CycleStarts, CycleReverted, CycleEnds
  <2>3. "busy" \in States /\ "idle" \in States
    BY DEF States
  <2> QED BY <2>1, <2>2, <2>3, StateEffect
<1>13. CASE Restart \/ UNCHANGED vars
  BY <1>0, <1>13, NoEffect DEF Restart, vars, rows
<1> QED BY <1>1, <1>2, <1>3, <1>4, <1>5, <1>6, <1>7, <1>8, <1>9, <1>10, <1>11, <1>12, <1>13
        DEF Next, OwnerStep, ReceiptStep

-----------------------------------------------------------------------------
\* The row after a step.
LEMMA RowAfter ==
  ASSUME TypeOK, Owned, Effect
  PROVE  team' \in TeamRow /\ team'.joined \subseteq team'.members /\ Owned'
<1>0. team \in TeamRow /\ team.joined \subseteq team.members
  BY DEF TypeOK, TeamRow, States
<1>1. CASE UNCHANGED team
  BY <1>0, <1>1 DEF Owned, NoTeam
<1>2. CASE team' = NoTeam
  BY <1>2, NoTeamRow DEF Owned
<1>3. CASE Resaved
  <2>1. PICK id \in Teams, l \in Sessions, S \in SUBSET Sessions, state \in States :
          team' = Saved(id, l, S, state)
    BY <1>3 DEF Resaved
  <2>2. /\ team' \in TeamRow /\ team'.id # 0 /\ team'.leader \in Sessions
        /\ team'.joined = {}
    BY <2>1, TeamAssumption DEF Saved, MarksAfter, TeamRow, Teams
  <2> QED BY <2>2 DEF Owned
<1>4. CASE team.id # 0 /\ Kept
  BY <1>4 DEF Kept, Owned
<1> QED BY <1>1, <1>2, <1>3, <1>4 DEF Effect

LEMMA MarksStep ==
  ASSUME TypeOK, Owned, MarksEarned, Effect
  PROVE  MarksEarned'
<1>1. CASE UNCHANGED team
  BY <1>1 DEF MarksEarned, Got, Effect
<1>2. CASE team' = NoTeam
  BY <1>2, NoTeamRow DEF MarksEarned
<1>3. CASE Resaved
  <2>1. PICK id \in Teams, l \in Sessions, S \in SUBSET Sessions, state \in States :
          team' = Saved(id, l, S, state)
    BY <1>3 DEF Resaved
  <2>2. team'.created = FALSE /\ team'.joined = {}
    BY <2>1 DEF Saved, MarksAfter
  <2> QED BY <2>2 DEF MarksEarned
<1>4. CASE Kept
  BY <1>4 DEF Kept, MarksEarned, Got, Effect
<1> QED BY <1>1, <1>2, <1>3, <1>4 DEF Effect

LEMMA RecordStep ==
  ASSUME TypeOK, RecordedIsApplied, [Next]_vars
  PROVE  /\ receipts' \subseteq Receipts
         /\ applied' \in [Receipts -> 0..2]
         /\ RecordedIsApplied'
<1>0. receipts \subseteq Receipts /\ applied \in [Receipts -> 0..2]
  BY DEF TypeOK
<1>1. CASE UNCHANGED <<receipts, applied>>
  BY <1>0, <1>1 DEF RecordedIsApplied
<1>2. ASSUME NEW r \in Receipts, TeamJoined(r)
      PROVE  /\ receipts' \subseteq Receipts
             /\ applied' \in [Receipts -> 0..2]
             /\ RecordedIsApplied'
  <2>1. CASE Applies(r)
    <3>1. r \notin receipts /\ team.id = r.team /\ r.from \in team.members
          /\ receipts' = receipts \cup {r}
      BY <1>2, <2>1 DEF Applies, RecordedAfter, TeamJoined
    <3>2. applied[r] = 0
      BY <3>1 DEF RecordedIsApplied
    <3>3. applied' = [applied EXCEPT ![r] = 1]
      BY <1>0, <1>2, <2>1, <3>1, <3>2 DEF TeamJoined
    <3> QED BY <1>0, <3>1, <3>3 DEF RecordedIsApplied
  <2>2. CASE ~Applies(r)
    <3>1. UNCHANGED <<receipts, applied>>
      BY <1>2, <2>2 DEF Applies, RecordedAfter, TeamJoined
    <3> QED BY <1>1, <3>1
  <2> QED BY <2>1, <2>2
<1>3. ASSUME [Next]_vars, ~ \E r \in Receipts : TeamJoined(r)
      PROVE  UNCHANGED <<receipts, applied>>
  BY <1>3 DEF Next, OwnerStep, ReceiptStep, SaveRopeTeam, SaveNew, SaveAgain, SaveLeader,
       SaveReverted, ResetSaved, DeleteRead, DeleteRow, RemoveRead, RemoveRow, TeamCreated,
       TeamJoinedPlain, DisbandedRead, LeaderChanged, TeamGone, CycleStarts, CycleReverted,
       CycleEnds, Restart, rows, vars
<1> QED BY <1>1, <1>2, <1>3

\* What handlers keep between their statements.
LEMMA DoingStep ==
  ASSUME TypeOK, Owned, [Next]_vars
  PROVE  /\ last' \in 0..MaxTeam
         /\ reverts' \subseteq Teams /\ resets' \subseteq Teams
         /\ request' \in {NoRequest} \cup
                           [op : {"delete", "remove"}, team : Teams, who : Sessions]
         /\ reading' \in [Sessions -> {NoRequest} \cup [team : Teams, changing : BOOLEAN]]
<1> DEFINE Typed ==
      /\ last' \in 0..MaxTeam
      /\ reverts' \subseteq Teams /\ resets' \subseteq Teams
      /\ request' \in {NoRequest} \cup
                        [op : {"delete", "remove"}, team : Teams, who : Sessions]
      /\ reading' \in [Sessions -> {NoRequest} \cup [team : Teams, changing : BOOLEAN]]
<1>0. /\ last \in 0..MaxTeam
      /\ reverts \subseteq Teams /\ resets \subseteq Teams
      /\ request \in {NoRequest} \cup
                       [op : {"delete", "remove"}, team : Teams, who : Sessions]
      /\ reading \in [Sessions -> {NoRequest} \cup [team : Teams, changing : BOOLEAN]]
  BY DEF TypeOK
<1>1. team.id # 0 => team.id \in Teams /\ team.leader \in Sessions
  BY TeamFields, TeamAssumption DEF Owned, Teams
<1>2. team.members \subseteq Sessions /\ (team.members # {} => team.id # 0)
  BY TeamFields, NoTeamRow DEF Owned
<1>3. ASSUME NEW l \in Sessions, NEW S \in SUBSET Sessions, SaveRopeTeam(l, S)
      PROVE  Typed
  BY <1>0, <1>1, <1>3, TeamAssumption
     DEF SaveRopeTeam, SaveNew, SaveAgain, SaveLeader, MaySave, doing
<1>4. ASSUME NEW t \in Teams, SaveReverted(t) \/ ResetSaved(t)
      PROVE  Typed
  BY <1>0, <1>4 DEF SaveReverted, ResetSaved
<1>5. CASE DeleteRead
  BY <1>0, <1>1, <1>5 DEF DeleteRead, rows
<1>6. CASE DeleteRow \/ RemoveRow
  BY <1>0, <1>6 DEF DeleteRow, RemoveRow
<1>7. ASSUME NEW m \in Sessions, RemoveRead(m)
      PROVE  Typed
  BY <1>0, <1>1, <1>2, <1>7 DEF RemoveRead, rows
<1>8. ASSUME NEW m \in Sessions, NEW t \in Teams, TeamCreated(m, t) \/ TeamJoinedPlain(m, t)
      PROVE  Typed
  BY <1>0, <1>8 DEF TeamCreated, TeamJoinedPlain, doing
<1>9. ASSUME NEW m \in Sessions, NEW t \in Teams, DisbandedRead(m, t)
      PROVE  Typed
  BY <1>0, <1>9 DEF DisbandedRead, rows
<1>10. ASSUME NEW m \in Sessions, NEW t \in Teams, LeaderChanged(m, t) \/ TeamGone(m, t)
       PROVE  Typed
  <2>1. reading' = [reading EXCEPT ![m] = NoRequest] /\ UNCHANGED <<last, reverts, request>>
    BY <1>10 DEF LeaderChanged, TeamGone
  <2>2. resets' = resets \/ resets' = resets \cup {t}
    BY <1>10 DEF LeaderChanged, TeamGone
  <2> QED BY <1>0, <2>1, <2>2
<1>11. ASSUME NEW r \in Receipts, TeamJoined(r)
       PROVE  Typed
  BY <1>0, <1>11 DEF TeamJoined, doing
<1>12. CASE CycleStarts \/ CycleReverted \/ CycleEnds
  BY <1>0, <1>12 DEF CycleStarts, CycleReverted, CycleEnds, doing
<1>13. CASE Restart
  BY <1>0, <1>13 DEF Restart, rows
<1>14. CASE UNCHANGED vars
  BY <1>0, <1>14 DEF vars, rows, doing
<1> QED BY <1>3, <1>4, <1>5, <1>6, <1>7, <1>8, <1>9, <1>10, <1>11, <1>12, <1>13, <1>14
        DEF Next, OwnerStep, ReceiptStep

-----------------------------------------------------------------------------
LEMMA TeamInit == Init => TeamInv
<1> SUFFICES ASSUME Init
             PROVE  TeamInv
  OBVIOUS
<1>1. /\ team = NoTeam /\ team \in TeamRow /\ team.id = 0 /\ team.created = FALSE
      /\ team.joined = {}
  BY NoTeamRow DEF Init
<1>2. TypeOK
  BY <1>1, TeamAssumption DEF Init, TypeOK, TeamRow, States
<1>3. Owned /\ MarksEarned
  BY <1>1 DEF Owned, MarksEarned
<1>4. RecordedIsApplied
  BY DEF Init, RecordedIsApplied
<1> QED BY <1>2, <1>3, <1>4 DEF TeamInv

LEMMA TeamStep == TeamInv /\ [Next]_vars => TeamInv'
<1> SUFFICES ASSUME TypeOK, Owned, MarksEarned, RecordedIsApplied, [Next]_vars
             PROVE  TeamInv'
  BY DEF TeamInv
<1>1. Effect
  BY EffectStep
<1>2. team' \in TeamRow /\ team'.joined \subseteq team'.members /\ Owned' /\ MarksEarned'
  BY <1>1, RowAfter, MarksStep
<1>3. told' \subseteq Commands
  BY <1>1 DEF Effect
<1>4. TypeOK'
  BY <1>2, <1>3, RecordStep, DoingStep DEF TypeOK, TeamRow, States
<1> QED BY <1>2, <1>4, RecordStep DEF TeamInv

\* The inductive invariant of the team, its marks and the receipts on record.
THEOREM TeamInvariant == Spec => []TeamInv
BY TeamInit, TeamStep, PTL DEF Spec

\* The rows, and what handlers keep between their statements, keep their types;
\* joined are only members.
THEOREM TeamTypeOK == Spec => []TypeOK
<1>1. TeamInv => TypeOK
  BY DEF TeamInv
<1> QED BY <1>1, TeamInvariant, PTL

\* "created" and "joined" are backed by what the very clients were told for this
\* very team (the team_created and team_joined receipts of server.go).
THEOREM TeamMarksEarned == Spec => []MarksEarned
<1>1. TeamInv => MarksEarned
  BY DEF TeamInv
<1> QED BY <1>1, TeamInvariant, PTL

\* A join receipt is applied exactly when its row is inserted, however often it
\* is repeated.
THEOREM TeamMarkedOnce == Spec => []MarkedOnce
<1>1. TeamInv => MarkedOnce
  BY DEF TeamInv, RecordedIsApplied, MarkedOnce
<1> QED BY <1>1, TeamInvariant, PTL

\* A running buff cycle keeps its leader and gets no new members.
LEMMA KeepsStep ==
  TeamInv /\ [Next]_vars =>
    (team.state = "busy" /\ team'.id = team.id
       => team'.leader = team.leader /\ team'.members \subseteq team.members)
<1> SUFFICES ASSUME TypeOK, Owned, [Next]_vars, team.state = "busy", team'.id = team.id
             PROVE  team'.leader = team.leader /\ team'.members \subseteq team.members
  BY DEF TeamInv
<1>1. team.id # 0
  BY NoTeamRow DEF Owned
<1>2. UNCHANGED team \/ Kept
  BY <1>1, EffectStep, NoTeamRow DEF Effect, Resaved
<1> QED BY <1>2 DEF Kept

\* A running buff cycle keeps its leader and gets no new members, whatever is
\* saved, changed or reported meanwhile, until its team is deleted.
THEOREM TeamCycleKeeps == Spec => CycleKeepsTeam
BY KeepsStep, TeamInvariant, PTL DEF Spec, CycleKeepsTeam

===============================================================================
