------------------------------- MODULE RopeTeam -------------------------------
(***************************************************************************)
(* The rope team of an account: what the owner does with it in the web     *)
(* page (internal/api/clients.go) and what the receipts of the clients do  *)
(* to it (internal/api/server.go).  There is one row per account, with the *)
(* leader, a state and "created in the game", and one row per member, with *)
(* "joined".  The owner's requests are handled concurrently; one that      *)
(* works in several statements is as many steps.  Receipts may come late   *)
(* and more than once: a client repeats one until it is acknowledged.      *)
(*                                                                         *)
(* The steps of a buff cycle are those of BossCycle: here a team is busy.  *)
(* Whether a client is connected is not kept: a test of it may come out    *)
(* either way, and a command may fail to be queued at any time.  As        *)
(* clients act and report as late as they like, a command that is queued   *)
(* reaches its client in the step of the statement before it.  Left out    *)
(* are role names, the "invited" marks, which decide nothing, and commands *)
(* that no receipt answers.                                                *)
(***************************************************************************)
EXTENDS Naturals, FiniteSets

CONSTANTS
  Sessions,  \* the clients of the account
  NoSession, \* the leader of no team
  NoRequest, \* no request is between its statements
  MaxTeam,   \* bound on the teams created
  MaxJoins,  \* bound on the receipts of a client for joining a team
  MaxPending \* bound on the handlers that are between their statements

ASSUME TeamAssumption ==
  /\ IsFiniteSet(Sessions) /\ NoSession \notin Sessions
  /\ MaxTeam \in Nat /\ MaxJoins \in Nat /\ MaxPending \in Nat

Teams == 1..MaxTeam

\* A configure_rope_party for the leader or for a member, a disband_rope_party.
Commands == [to : Sessions, team : Teams, action : {"lead", "follow", "disband"}]

\* team_joined; the number 0 is for one without a receipt (older clients).
Joined(m, t, n) == [from |-> m, team |-> t, n |-> n]

VARIABLES
  team,     \* the row of rope_teams and those of rope_team_members
  last,     \* the number of the team created last
  receipts, \* the rows of rope_join_receipts
  reverts,  \* teams that handleSaveRopeTeam is about to set back
  resets,   \* teams that configureSavedRopeTeam is about to set back
  request,  \* what a request to delete or to remove has read
  reading,  \* what the handler of each client has read for its team_disbanded
  told,     \* external: the commands that clients got
  applied   \* history: how often a receipt marked its client as joined

rows == <<team, last, receipts>>
doing == <<reverts, resets, request, reading>>
vars == <<rows, doing, told, applied>>

Receipts == {Joined(m, t, n) : m \in Sessions, t \in Teams, n \in 1..MaxJoins}

NoTeam ==
  [id |-> 0, leader |-> NoSession, state |-> "idle",
   created |-> FALSE, members |-> {}, joined |-> {}]

Init ==
  /\ team = NoTeam /\ last = 0 /\ receipts = {}
  /\ reverts = {} /\ resets = {}
  /\ request = NoRequest
  /\ reading = [m \in Sessions |-> NoRequest]
  /\ told = {}
  /\ applied = [r \in Receipts |-> 0]

-----------------------------------------------------------------------------
(***************************************************************************)
(* handleSaveRopeTeam: a transaction, then the commands.                   *)
(***************************************************************************)
\* Mutant: the marks stay.
MarksKept(S) == team.joined

MarksAfter(S) == {}

\* The row after a save: everybody has to join again.
Saved(id, l, S, state) ==
  [id |-> id, leader |-> l, state |-> state, created |-> FALSE,
   members |-> S, joined |-> MarksAfter(S)]

\* Another handler may be between its statements.
MayPend ==
  Cardinality(reverts) + Cardinality(resets) + Cardinality({request} \ {NoRequest})
    + Cardinality({m \in Sessions : reading[m] # NoRequest}) < MaxPending

Disband(m, t) == [to |-> m, team |-> t, action |-> "disband"]

\* configure_rope_party for everybody in S.
Configure(id, l, S) ==
  {[to |-> m, team |-> id, action |-> IF m = l THEN "lead" ELSE "follow"] : m \in S}

\* Of the commands C some are queued.
Send(C) == \E sent \in SUBSET C : told' = told \cup sent

SaveNew(l, S) ==
  /\ team.id = 0
  /\ last < MaxTeam /\ last' = last + 1
  /\ team' = Saved(last + 1, l, S, "idle")
  /\ Send(Configure(last + 1, l, S))
  /\ UNCHANGED <<receipts, doing, applied>>

\* Mutant: the state is not asked for.
MaySaveAny == team.id # 0

MaySave == team.id # 0 /\ team.state = "idle"

SaveAgain(l, S) ==
  /\ MaySave /\ team.leader = l
  /\ team' = Saved(team.id, l, S, "idle")
  /\ Send(Configure(team.id, l, S))
  /\ UNCHANGED <<last, receipts, doing, applied>>

\* The old leader is told to leave, and the others are configured when it has;
\* or the old leader cannot be told.
SaveLeader(l, S) ==
  /\ MaySave /\ team.leader # l
  /\ team' = Saved(team.id, l, S, "changing_leader")
  /\ \/ told' = told \cup {Disband(team.leader, team.id)} /\ UNCHANGED reverts
     \/ MayPend /\ reverts' = reverts \cup {team.id} /\ UNCHANGED told
  /\ UNCHANGED <<last, receipts, resets, request, reading, applied>>

SaveReverted(t) ==
  /\ t \in reverts
  /\ reverts' = reverts \ {t}
  /\ team' = IF team.id = t /\ team.state = "changing_leader"
             THEN [team EXCEPT !.state = "idle"] ELSE team
  /\ UNCHANGED <<last, receipts, resets, request, reading, told, applied>>

SaveRopeTeam(l, S) == l \in S /\ (SaveNew(l, S) \/ SaveAgain(l, S) \/ SaveLeader(l, S))

\* The end of configureSavedRopeTeam when a command was not queued: whatever
\* the state is by then.
ResetSaved(t) ==
  /\ t \in resets
  /\ resets' = resets \ {t}
  /\ team' = IF team.id = t THEN [team EXCEPT !.created = FALSE, !.state = "idle"] ELSE team
  /\ UNCHANGED <<last, receipts, reverts, request, reading, told, applied>>

-----------------------------------------------------------------------------
(***************************************************************************)
(* handleDeleteRopeTeam and handleRemoveRopeTeamMember: what is read first *)
(* is used after other requests may have changed it.                       *)
(***************************************************************************)
DeleteRead ==
  /\ MayPend /\ request = NoRequest /\ team.id # 0
  /\ request' = [op |-> "delete", team |-> team.id, who |-> team.leader]
  /\ UNCHANGED <<rows, reverts, resets, reading, told, applied>>

\* The row goes, and the rows of the members with it.
DeleteRow ==
  /\ request # NoRequest /\ request.op = "delete"
  /\ request' = NoRequest
  /\ IF team.id = request.team
     THEN team' = NoTeam /\ Send({Disband(request.who, request.team)})
     ELSE UNCHANGED <<team, told>>
  /\ UNCHANGED <<last, receipts, reverts, resets, reading, applied>>

\* The leader is connected and is told, or the request ends.
RemoveRead(m) ==
  /\ MayPend /\ request = NoRequest
  /\ m \in team.members /\ m # team.leader
  /\ request' = [op |-> "remove", team |-> team.id, who |-> m]
  /\ UNCHANGED <<rows, reverts, resets, reading, told, applied>>

RemoveRow ==
  /\ request # NoRequest /\ request.op = "remove"
  /\ request' = NoRequest
  /\ team' = IF team.id = request.team
             THEN [team EXCEPT !.members = @ \ {request.who},
                               !.joined = @ \ {request.who}]
             ELSE team
  /\ UNCHANGED <<last, receipts, reverts, resets, reading, told, applied>>

-----------------------------------------------------------------------------
(***************************************************************************)
(* Receipts.  A client that was told to create, join or leave a party      *)
(* reports that it did, at any time and as often as it likes.              *)
(***************************************************************************)
Got(m, t, action) == [to |-> m, team |-> t, action |-> action] \in told

\* Mutant: whoever reports it.
MayCreateAny(m, t) == team.id = t /\ m \in team.members

MayCreate(m, t) == team.id = t /\ team.leader = m /\ m \in team.members

TeamCreated(m, t) ==
  /\ Got(m, t, "lead")
  /\ MayCreate(m, t)
  /\ team' = [team EXCEPT !.created = TRUE, !.joined = @ \cup {m}]
  /\ UNCHANGED <<last, receipts, doing, told, applied>>

\* Mutant: a receipt is recorded whether or not there is a team for it.
RecordedAlways(r) == receipts \cup {r}

\* INSERT IGNORE ... WHERE EXISTS.
RecordedAfter(r) ==
  IF team.id = r.team /\ r.from \in team.members THEN receipts \cup {r} ELSE receipts

\* Mutant: whether the receipt is new does not matter.
AppliesAlways(r) == team.id = r.team /\ r.from \in team.members

Applies(r) == r \notin receipts /\ r \in RecordedAfter(r)

\* One transaction.  The receipt is acknowledged if it is recorded by then.
TeamJoined(r) ==
  /\ Got(r.from, r.team, "follow")
  /\ receipts' = RecordedAfter(r)
  /\ IF Applies(r) /\ r.from \in team.members /\ team.id = r.team
     THEN /\ team' = [team EXCEPT !.joined = @ \cup {r.from}]
          /\ applied' = [applied EXCEPT ![r] = IF @ < 2 THEN @ + 1 ELSE 2]
     ELSE UNCHANGED <<team, applied>>
  /\ UNCHANGED <<last, doing, told>>

\* The same without a receipt.
TeamJoinedPlain(m, t) ==
  /\ Got(m, t, "follow")
  /\ team.id = t /\ m \in team.members
  /\ team' = [team EXCEPT !.joined = @ \cup {m}]
  /\ UNCHANGED <<last, receipts, doing, told, applied>>

\* team_disbanded: the state is read ...
DisbandedRead(m, t) ==
  /\ Got(m, t, "disband")
  /\ MayPend /\ reading[m] = NoRequest /\ team.id = t
  /\ reading' = [reading EXCEPT ![m] =
       [team |-> t, changing |-> team.state = "changing_leader"]]
  /\ UNCHANGED <<rows, reverts, resets, request, told, applied>>

\* ... and the old leader has left: the saved team is configured, also when the
\* update found nothing to do;
LeaderChanged(m, t) ==
  /\ reading[m] = [team |-> t, changing |-> TRUE]
  /\ reading' = [reading EXCEPT ![m] = NoRequest]
  /\ IF team.id = t
     THEN /\ team' = IF team.leader # m
                     THEN [team EXCEPT !.created = FALSE, !.state = "idle"] ELSE team
          /\ \/ /\ told' = told \cup Configure(t, team.leader, team.members)
                /\ UNCHANGED resets
             \/ /\ Send(Configure(t, team.leader, team.members))
                /\ resets' = resets \cup {t}
     ELSE UNCHANGED <<team, told, resets>>
  /\ UNCHANGED <<last, receipts, reverts, request, applied>>

\* or the leader gave up the party, and the team is deleted.
TeamGone(m, t) ==
  /\ reading[m] = [team |-> t, changing |-> FALSE]
  /\ reading' = [reading EXCEPT ![m] = NoRequest]
  /\ team' = IF team.id = t /\ team.leader = m THEN NoTeam ELSE team
  /\ UNCHANGED <<last, receipts, reverts, resets, request, told, applied>>

-----------------------------------------------------------------------------
(***************************************************************************)
(* Buff cycles and restarts.                                               *)
(***************************************************************************)
CycleStarts ==
  /\ team.id # 0 /\ team.state = "idle" /\ team.created
  /\ team' = [team EXCEPT !.state = "busy"]
  /\ UNCHANGED <<last, receipts, doing, told, applied>>

CycleReverted ==
  /\ team.state = "busy"
  /\ team' = [team EXCEPT !.state = "idle"]
  /\ UNCHANGED <<last, receipts, doing, told, applied>>

CycleEnds ==
  /\ team.state = "busy"
  /\ team' = [team EXCEPT !.state = "idle", !.created = FALSE, !.joined = {}]
  /\ UNCHANGED <<last, receipts, doing, told, applied>>

Restart ==
  /\ reverts' = {} /\ resets' = {} /\ request' = NoRequest
  /\ reading' = [m \in Sessions |-> NoRequest]
  /\ UNCHANGED <<rows, told, applied>>

-----------------------------------------------------------------------------
OwnerStep ==
  \/ \E l \in Sessions, S \in SUBSET Sessions : SaveRopeTeam(l, S)
  \/ \E t \in Teams : SaveReverted(t) \/ ResetSaved(t)
  \/ DeleteRead \/ DeleteRow
  \/ \E m \in Sessions : RemoveRead(m)
  \/ RemoveRow

ReceiptStep ==
  \/ \E m \in Sessions, t \in Teams :
       \/ TeamCreated(m, t)
       \/ TeamJoinedPlain(m, t)
       \/ DisbandedRead(m, t) \/ LeaderChanged(m, t) \/ TeamGone(m, t)
  \/ \E r \in Receipts : TeamJoined(r)

Next ==
  \/ OwnerStep
  \/ ReceiptStep
  \/ CycleStarts \/ CycleReverted \/ CycleEnds
  \/ Restart

Spec == Init /\ [][Next]_vars

-----------------------------------------------------------------------------
(***************************************************************************)
(* Properties.                                                             *)
(***************************************************************************)
\* The type invariant.
TypeOK ==
  /\ team \in [id : 0..MaxTeam, leader : Sessions \cup {NoSession},
               state : {"idle", "changing_leader", "busy"}, created : BOOLEAN,
               members : SUBSET Sessions, joined : SUBSET Sessions]
  /\ team.joined \subseteq team.members
  /\ last \in 0..MaxTeam
  /\ receipts \subseteq Receipts
  /\ reverts \subseteq Teams /\ resets \subseteq Teams
  /\ request \in {NoRequest} \cup [op : {"delete", "remove"}, team : Teams, who : Sessions]
  /\ reading \in [Sessions -> {NoRequest} \cup [team : Teams, changing : BOOLEAN]]
  /\ told \subseteq Commands
  /\ applied \in [Receipts -> 0..2]

\* What the page shows is backed by reports of the very clients for this very
\* team, although receipts of earlier teams, earlier leaders and removed members
\* arrive at any time: the leader there is now was told to create the party and
\* reported it, a member that counts as joined was told to join or to create it.
MarksEarned ==
  /\ team.created => Got(team.leader, team.id, "lead")
  /\ \A m \in team.joined : Got(m, team.id, "lead") \/ Got(m, team.id, "follow")

\* A running buff cycle keeps its leader and gets no new members, as BossCycle
\* assumes, until its team is deleted; members may leave.  Saving, changing the leader and late receipts go on around it.
CycleKeepsTeam ==
  [][team.state = "busy" /\ team'.id = team.id
       => team'.leader = team.leader /\ team'.members \subseteq team.members]_vars

\* A join receipt marks its client at most once: repeated after the marks were
\* cleared, it does not count for the party that is formed then.  One that is
\* recorded, which the client is told to repeat no more, has marked its client.
MarkedOnce ==
  \A r \in Receipts : applied[r] <= 1 /\ (r \in receipts => applied[r] > 0)
=============================================================================
