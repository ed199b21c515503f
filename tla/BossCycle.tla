------------------------------ MODULE BossCycle ------------------------------
(***************************************************************************)
(* The buff cycle of a rope team (internal/api/boss_cycle.go and the       *)
(* receipts of internal/api/server.go that advance it).  The cycle lives   *)
(* in MySQL, in the row of the team (state, cycle number, created in the   *)
(* game) and the rows of its members (joined, the cycle completed last).   *)
(* It is moved by receipts that a client repeats until they are            *)
(* acknowledged, and it moves the clients by commands that are sent after  *)
(* the transaction has committed, over a channel that a lost connection    *)
(* empties.                                                                *)
(*                                                                         *)
(* A transaction that locks the row of the team is one step.  What a       *)
(* handler does after its commit, and the three parts of a reconciliation  *)
(* (an unlocked read, the snapshot of its transaction, the commit), are    *)
(* steps of their own.  The client is outside the repository: it works on  *)
(* a command of a cycle once, however often it gets it, and then reports.  *)
(***************************************************************************)
EXTENDS Naturals, FiniteSets

CONSTANTS
  Members,   \* the sessions of the team
  Leader,    \* the session that leads it
  MaxCycle,  \* bound on the number of cycles
  MaxFaults, \* bound on commands that are not queued, in spite of a connection
  MaxDrops,  \* bound on client starts, stops and lost connections
  MaxLost,   \* bound on transactions that fail
  MaxTrouble \* bound on all three together

ASSUME CycleAssumption ==
  /\ Leader \in Members
  /\ MaxCycle \in Nat /\ MaxFaults \in Nat /\ MaxDrops \in Nat /\ MaxLost \in Nat
  /\ MaxTrouble \in Nat

Cycles == 1..MaxCycle
Actions == {"start", "cast", "disband"}
Commands == [to : Members, action : Actions, cycle : Cycles]

VARIABLES
  team,       \* the row of rope_teams
  joined,     \* rope_team_members.joined
  completed,  \* rope_team_members.boss_completed_cycle_id
  connected,  \* the hub has a connection of each client
  running,    \* the last client state the hub got says: temple mode, running
  wire,       \* commands that a handler is to queue or has queued
  starting,   \* cycles whose start command is not queued yet
  reverting,  \* cycles whose start command could not be queued
  clearing,   \* the leader's handler is between the statements of a disband
  reconcile,  \* what the reconciliation of each handler has read
  job,        \* external: what each client does about each command
  faults,     \* commands lost, by now
  drops,      \* changes of status, by now
  lost,       \* failed transactions, by now
  owing       \* history: the members the cycle started with that have neither
              \* reported completion nor been found inactive since

rows == <<team, joined, completed>>
wires == <<wire, starting, reverting>>
bounds == <<faults, drops, lost>>
status == <<connected, running>>
vars == <<rows, status, wires, clearing, reconcile, job, bounds, owing>>

-----------------------------------------------------------------------------
\* isActiveTempleClient: connected, in temple mode, running.
Active(m) == connected[m] /\ running[m]

\* Members that have not completed cycle c, for ropeTeamPendingCycleSessionIDs.
Pending(c) == {m \in Members : completed[m] # c}

Cast(m, c) == [to |-> m, action |-> "cast", cycle |-> c]
Start(c) == [to |-> Leader, action |-> "start", cycle |-> c]
Disband(c) == [to |-> Leader, action |-> "disband", cycle |-> c]

\* Bounds: one more command or transaction may fail, one more client may change.
MayFail == faults < MaxFaults /\ faults + drops + lost < MaxTrouble
MayDrop == drops < MaxDrops /\ faults + drops + lost < MaxTrouble
MayLose == lost < MaxLost /\ faults + drops + lost < MaxTrouble

NoReconcile == [pc |-> "none"]

\* The handler of m is in no reconciliation and between no two statements.
Idle(m) == reconcile[m] = NoReconcile /\ (m = Leader => ~clearing)

Init ==
  /\ team = [state |-> "idle", cycle |-> 0, created |-> TRUE]
  /\ joined = [m \in Members |-> TRUE]
  /\ completed = [m \in Members |-> 0]
  /\ connected = [m \in Members |-> FALSE]
  /\ running = [m \in Members |-> FALSE]
  /\ wire = {} /\ starting = {} /\ reverting = {}
  /\ clearing = FALSE
  /\ reconcile = [m \in Members |-> NoReconcile]
  /\ job = [m \in Members |-> [a \in Actions |-> [c \in Cycles |-> "none"]]]
  /\ faults = 0 /\ drops = 0 /\ lost = 0
  /\ owing = {}

-----------------------------------------------------------------------------
(***************************************************************************)
(* The party in the game.                                                  *)
(***************************************************************************)
\* The leader reports that it created the party.
TeamCreated ==
  /\ connected[Leader] /\ Idle(Leader)
  /\ ~(team.created /\ joined[Leader])
  /\ team' = [team EXCEPT !.created = TRUE]
  /\ joined' = [joined EXCEPT ![Leader] = TRUE]
  /\ UNCHANGED <<completed, status, wires, clearing, reconcile, job, bounds, owing>>

\* A member reports that it joined the party.
TeamJoined(m) ==
  /\ connected[m] /\ Idle(m) /\ ~joined[m]
  /\ joined' = [joined EXCEPT ![m] = TRUE]
  /\ UNCHANGED <<team, completed, status, wires, clearing, reconcile, job, bounds, owing>>

-----------------------------------------------------------------------------
(***************************************************************************)
(* startBossBuffCycle.                                                     *)
(***************************************************************************)
\* Mutant: the others are done with the cycle after this one.
FrozenNext(active, c) == [m \in Members |-> IF m \in active THEN 0 ELSE c + 1]

\* Online members have the cycle before them, the others are done with it.
FrozenAfter(active, c) == [m \in Members |-> IF m \in active THEN 0 ELSE c]

MayStart ==
  /\ team.state = "idle" /\ team.created
  /\ Active(Leader)
  /\ \A m \in Members : Active(m) => joined[m]

StartCycle ==
  LET c == team.cycle + 1
      active == {m \in Members : Active(m)}
  IN  /\ MayStart
      /\ c <= MaxCycle
      /\ team' = [team EXCEPT !.state = "inviting", !.cycle = c]
      /\ completed' = FrozenAfter(active, c)
      /\ starting' = starting \cup {c}
      /\ owing' = active
      /\ UNCHANGED <<joined, status, wire, reverting, clearing, reconcile, job, bounds>>

\* A member reports buff_due, whatever comes of it is acknowledged.
BuffDue(m) == connected[m] /\ Idle(m) /\ StartCycle

\* The owner saves the name of the boss and starts a cycle with it.
SaveRopeTeamBoss == Active(Leader) /\ StartCycle

StartSent(c) ==
  /\ c \in starting /\ connected[Leader]
  /\ starting' = starting \ {c}
  /\ wire' = wire \cup {Start(c)}
  /\ UNCHANGED <<rows, status, reverting, clearing, reconcile, job, bounds, owing>>

\* A command that finds no connection is not queued; one that finds a full
\* channel is not queued either.
SendFails(m) ==
  \/ ~connected[m] /\ faults' = faults
  \/ connected[m] /\ MayFail /\ faults' = faults + 1

StartFailed(c) ==
  /\ c \in starting /\ SendFails(Leader)
  /\ starting' = starting \ {c}
  /\ reverting' = reverting \cup {c}
  /\ UNCHANGED <<rows, status, wire, clearing, reconcile, job, drops, lost, owing>>

\* Mutant: the revert does not look at the state.
RevertsAny(c) == team.cycle = c

Reverts(c) == team.cycle = c /\ team.state = "inviting"

StartReverted(c) ==
  /\ c \in reverting
  /\ reverting' = reverting \ {c}
  /\ team' = IF Reverts(c) THEN [team EXCEPT !.state = "idle"] ELSE team
  /\ UNCHANGED <<joined, completed, status, wire, starting, clearing,
                 reconcile, job, bounds, owing>>

-----------------------------------------------------------------------------
(***************************************************************************)
(* Receipts.  A client repeats one until it is acknowledged.           *)
(***************************************************************************)
Reports(m, a, c) == job[m][a][c] = "working" /\ connected[m] /\ Idle(m)

\* ackProgress: the acknowledgement reaches the client, or is not queued.
Acknowledge(m, a, c) ==
  \/ /\ job' = [job EXCEPT ![m][a][c] = "acked"]
     /\ UNCHANGED faults
  \/ /\ MayFail /\ faults' = faults + 1
     /\ UNCHANGED job

\* The transaction of a buff receipt fails: the receipt is acknowledged.
ReceiptLost(m, a, c) ==
  /\ a # "disband"
  /\ Reports(m, a, c)
  /\ MayLose /\ lost' = lost + 1
  /\ Acknowledge(m, a, c)
  /\ UNCHANGED <<rows, status, wires, clearing, reconcile, drops, owing>>

\* Mutant: the state of the team is not asked for.
MayMarkAny(c) == team.cycle = c /\ Pending(c) # {}

\* markBossJoined: the leader is in the party of the boss, the members that
\* have not completed the cycle are to cast.
MayMarkJoined(c) ==
  /\ team.cycle = c /\ team.state \in {"inviting", "casting"}
  /\ Pending(c) # {}

BossJoined(c) ==
  /\ Reports(Leader, "start", c)
  /\ IF MayMarkJoined(c)
     THEN /\ team' = [team EXCEPT !.state = "casting"]
          /\ wire' = wire \cup {Cast(m, c) : m \in {p \in Pending(c) : Active(p)}}
     ELSE UNCHANGED <<team, wire>>
  /\ Acknowledge(Leader, "start", c)
  /\ UNCHANGED <<joined, completed, status, starting, reverting, clearing,
                 reconcile, drops, lost, owing>>

\* skipInactiveBossCycleParticipants, over the completions in done.
Skipped(done, c) == {m \in Members : done[m] # c /\ ~Active(m)}

Complete(done, S, c) == [m \in Members |-> IF m \in S THEN c ELSE done[m]]

MayMarkCompleted(m, c) == team.cycle = c /\ team.state = "casting" /\ completed[m] # c

\* Mutant: the first completion ends the cycle.
SomeDone(done, c) == \E m \in Members : done[m] = c

AllDone(done, c) == \A m \in Members : done[m] = c

\* markBossBuffCompleted.
BuffCompleted(m, c) ==
  LET own == Complete(completed, {m}, c)
      skip == Skipped(own, c)
      done == Complete(own, skip, c)
  IN  /\ Reports(m, "cast", c)
      /\ IF MayMarkCompleted(m, c)
         THEN /\ completed' = done
              /\ owing' = owing \ ({m} \cup skip)
              /\ IF AllDone(done, c)
                 THEN /\ team' = [team EXCEPT !.state = "disbanding"]
                      /\ wire' = wire \cup {Disband(c)}
                 ELSE UNCHANGED <<team, wire>>
         ELSE UNCHANGED <<team, completed, wire, owing>>
      /\ Acknowledge(m, "cast", c)
      /\ UNCHANGED <<joined, status, starting, reverting, clearing, reconcile,
                     drops, lost>>

MayEnd(c) == team.cycle = c /\ team.state = "disbanding"

\* boss_cycle_disbanded, first statement; it is acknowledged at once when it
\* finds nothing to do.
CycleDisbanded(c) ==
  /\ Reports(Leader, "disband", c)
  /\ IF MayEnd(c)
     THEN /\ team' = [team EXCEPT !.state = "idle", !.created = FALSE]
          /\ clearing' = TRUE
          /\ UNCHANGED <<job, faults>>
     ELSE /\ Acknowledge(Leader, "disband", c)
          /\ UNCHANGED <<team, clearing>>
  /\ UNCHANGED <<joined, completed, status, wires, reconcile, drops, lost, owing>>

\* Second statement: the rows of the members are cleared.
MembersCleared ==
  /\ clearing
  /\ clearing' = FALSE
  /\ joined' = [m \in Members |-> FALSE]
  /\ completed' = [m \in Members |-> 0]
  /\ Acknowledge(Leader, "disband", team.cycle)
  /\ UNCHANGED <<team, status, wires, reconcile, drops, lost, owing>>

\* The second statement fails; the receipt is not acknowledged.
ClearingLost ==
  /\ clearing
  /\ MayLose /\ lost' = lost + 1
  /\ clearing' = FALSE
  /\ UNCHANGED <<rows, status, wires, reconcile, job, faults, drops, owing>>

-----------------------------------------------------------------------------
\* A command is not queued.
CommandLost(x) ==
  /\ x \in wire /\ SendFails(x.to)
  /\ wire' = wire \ {x}
  /\ UNCHANGED <<rows, status, starting, reverting, clearing, reconcile, job,
                 drops, lost, owing>>

-----------------------------------------------------------------------------
(***************************************************************************)
(* Client state, reconcileBossBuffCycle and the end of a connection.       *)
(***************************************************************************)
\* A client connects; the hub keeps the client state of its last connection.
Connect(m) ==
  /\ ~connected[m] /\ Idle(m)
  /\ connected' = [connected EXCEPT ![m] = TRUE]
  /\ UNCHANGED <<rows, running, wires, clearing, reconcile, job, bounds, owing>>

\* Mutant: a team that is inviting is not looked at.
ReadNoInvite ==
  IF team.state \in {"idle", "inviting"} THEN NoReconcile
  ELSE [pc |-> "read", state |-> team.state, cycle |-> team.cycle]

\* The unlocked read at the start of a reconciliation.
Read ==
  IF team.state = "idle" THEN NoReconcile
  ELSE [pc |-> "read", state |-> team.state, cycle |-> team.cycle]

\* A client_state message: the hub knows the new state, the member's part of a
\* cycle is resumed, the handler begins to reconcile.
ClientState(m, runs) ==
  /\ connected[m] /\ Idle(m)
  /\ IF running[m] /\ ~runs THEN MayDrop /\ drops' = drops + 1
                            ELSE UNCHANGED drops
  /\ running' = [running EXCEPT ![m] = runs]
  /\ wire' = IF team.state = "casting" /\ m \in Pending(team.cycle)
             THEN wire \cup {Cast(m, team.cycle)} ELSE wire
  /\ reconcile' = [reconcile EXCEPT ![m] = Read]
  /\ UNCHANGED <<rows, connected, starting, reverting, clearing, job, faults, lost, owing>>

\* The connection ends and its handler reconciles.  Commands in its channel
\* are lost; those that a handler has not queued yet are not.
ConnectionEnds(m) ==
  /\ connected[m] /\ Idle(m)
  /\ MayDrop /\ drops' = drops + 1
  /\ connected' = [connected EXCEPT ![m] = FALSE]
  /\ \E queued \in SUBSET {x \in wire : x.to = m} : wire' = wire \ queued
  /\ reconcile' = [reconcile EXCEPT ![m] = Read]
  /\ UNCHANGED <<rows, running, starting, reverting, clearing, job, faults, lost, owing>>

\* The server stops and starts again: the rows stay, what was in memory and
\* every handler are gone.
Restart ==
  /\ \E m \in Members : connected[m]
  /\ MayDrop /\ drops' = drops + 1
  /\ connected' = [m \in Members |-> FALSE]
  /\ running' = [m \in Members |-> FALSE]
  /\ wire' = {} /\ starting' = {} /\ reverting' = {}
  /\ clearing' = FALSE
  /\ reconcile' = [m \in Members |-> NoReconcile]
  /\ UNCHANGED <<rows, job, faults, lost, owing>>

\* In an inviting or a disbanding team the command of the leader is repeated.
Repeated(state, c) == IF state = "inviting" THEN Start(c) ELSE Disband(c)

ReconcileRepeat(m) ==
  LET r == reconcile[m]
  IN  /\ r.pc = "read" /\ r.state # "casting"
      /\ wire' = IF Active(Leader) THEN wire \cup {Repeated(r.state, r.cycle)} ELSE wire
      /\ reconcile' = [reconcile EXCEPT ![m] = NoReconcile]
      /\ UNCHANGED <<rows, status, starting, reverting, clearing, job, bounds, owing>>

\* In a casting team a transaction begins: it works on the completions of this
\* moment, and with the clients that are active now.
ReconcileSnapshot(m) ==
  LET r == reconcile[m]
  IN  /\ r.pc = "read" /\ r.state = "casting"
      /\ reconcile' = [reconcile EXCEPT ![m] =
           [pc |-> "snapshot", cycle |-> r.cycle,
            skip |-> Skipped(completed, r.cycle),
            pending |-> Pending(r.cycle) \ Skipped(completed, r.cycle)]]
      /\ UNCHANGED <<rows, status, wires, clearing, job, bounds, owing>>

\* Mutant: the cycle of the snapshot is not compared.
EndsCastingAny(r) == r.pending = {} /\ team.state = "casting"

EndsCasting(r) == r.pending = {} /\ team.cycle = r.cycle /\ team.state = "casting"

\* It commits: the members it skips are done, and when it saw nobody else
\* pending the cycle ends.  Its updates see the rows as they are now.
ReconcileCommit(m) ==
  LET r == reconcile[m]
  IN  /\ r.pc = "snapshot"
      /\ completed' = Complete(completed, r.skip, r.cycle)
      /\ owing' = IF r.cycle = team.cycle THEN owing \ r.skip ELSE owing
      /\ IF EndsCasting(r)
         THEN /\ team' = [team EXCEPT !.state = "disbanding"]
              /\ wire' = wire \cup {Disband(r.cycle)}
         ELSE /\ wire' = wire \cup {Cast(p, r.cycle) : p \in r.pending}
              /\ UNCHANGED team
      /\ reconcile' = [reconcile EXCEPT ![m] = NoReconcile]
      /\ UNCHANGED <<joined, status, starting, reverting, clearing, job, bounds>>

-----------------------------------------------------------------------------
(***************************************************************************)
(* The client, which is not in the repository: it begins with a command of *)
(* a cycle once, and reports until it is answered when it is through.      *)
(***************************************************************************)
Receive(x) ==
  /\ x \in wire /\ connected[x.to]
  /\ wire' = wire \ {x}
  /\ job' = IF job[x.to][x.action][x.cycle] = "none"
            THEN [job EXCEPT ![x.to][x.action][x.cycle] = "working"] ELSE job
  /\ UNCHANGED <<rows, status, starting, reverting, clearing, reconcile, bounds, owing>>

-----------------------------------------------------------------------------
PartyStep == TeamCreated \/ \E m \in Members : TeamJoined(m)

StartStep ==
  \/ SaveRopeTeamBoss
  \/ \E m \in Members : BuffDue(m)
  \/ \E c \in Cycles : StartSent(c) \/ StartFailed(c) \/ StartReverted(c)

ReceiptStep ==
  \/ \E c \in Cycles : BossJoined(c) \/ CycleDisbanded(c)
  \/ \E m \in Members, c \in Cycles : BuffCompleted(m, c)
  \/ \E m \in Members, a \in Actions, c \in Cycles : ReceiptLost(m, a, c)
  \/ MembersCleared
  \/ ClearingLost

CommandStep == \E x \in wire : CommandLost(x) \/ Receive(x)

ReconcileStep ==
  \E m \in Members :
    ReconcileRepeat(m) \/ ReconcileSnapshot(m) \/ ReconcileCommit(m)

ConnectionStep ==
  \/ \E m \in Members : Connect(m) \/ ConnectionEnds(m)
  \/ \E m \in Members, runs \in BOOLEAN : ClientState(m, runs)
  \/ Restart

Next ==
  \/ PartyStep
  \/ StartStep
  \/ ReceiptStep
  \/ CommandStep
  \/ ReconcileStep
  \/ ConnectionStep

Spec == Init /\ [][Next]_vars

(***************************************************************************)
(* Fairness.  A goroutine that can go on does; a statement returns.  A     *)
(* handler works on the messages of its connection in their order, so a    *)
(* receipt that is repeated is reached although client states arrive in    *)
(* between (strong fairness).  Of the clients it is assumed that the       *)
(* leader's connects again and runs, and that a running client ends its    *)
(* work; other clients may stay away for ever.                             *)
(***************************************************************************)
Fairness ==
  /\ \A c \in Cycles :
       /\ WF_vars(StartSent(c) \/ StartFailed(c))
       /\ WF_vars(StartReverted(c))
       /\ SF_vars(BossJoined(c))
       /\ SF_vars(CycleDisbanded(c))
  /\ \A m \in Members, c \in Cycles : SF_vars(BuffCompleted(m, c))
  /\ WF_vars(MembersCleared)
  /\ \A x \in Commands : WF_vars(Receive(x))
  /\ \A m \in Members :
       WF_vars(ReconcileRepeat(m) \/ ReconcileSnapshot(m) \/ ReconcileCommit(m))
  /\ WF_vars(Connect(Leader)) /\ SF_vars(ClientState(Leader, TRUE))

FairSpec == Spec /\ Fairness

-----------------------------------------------------------------------------
(***************************************************************************)
(* Properties.                                                             *)
(***************************************************************************)
States == {"idle", "inviting", "casting", "disbanding"}
Phases == {"none", "working", "acked"}
Reconciles ==
  {NoReconcile}
    \cup [pc : {"read"}, state : States \ {"idle"}, cycle : Cycles]
    \cup [pc : {"snapshot"}, cycle : Cycles, skip : SUBSET Members, pending : SUBSET Members]

\* The type invariant.
TypeOK ==
  /\ team \in [state : States, cycle : 0..MaxCycle, created : BOOLEAN]
  /\ joined \in [Members -> BOOLEAN]
  /\ completed \in [Members -> 0..MaxCycle]
  /\ connected \in [Members -> BOOLEAN] /\ running \in [Members -> BOOLEAN]
  /\ wire \subseteq Commands
  /\ starting \subseteq Cycles /\ reverting \subseteq Cycles
  /\ clearing \in BOOLEAN
  /\ reconcile \in [Members -> Reconciles]
  /\ job \in [Members -> [Actions -> [Cycles -> Phases]]]
  /\ faults \in 0..MaxFaults /\ drops \in 0..MaxDrops /\ lost \in 0..MaxLost
  /\ owing \subseteq Members

\* The rows of the team go through the rounds that BossRound promises.
Round == INSTANCE BossRound WITH phase <- team.state, round <- team.cycle
RoundRefinement == Round!Spec

\* The boss is not kicked early: once the team is disbanding, every member that
\* the cycle started with has reported completion or was found inactive.
NoEarlyDisband == team.state = "disbanding" => owing = {}

\* The leader begins to disband the party of the boss only while the team is
\* disbanding that cycle, however late and however often it was told.
DisbandInTime ==
  [][\A c \in Cycles :
       job[Leader]["disband"][c] = "none" /\ job'[Leader]["disband"][c] = "working"
         => team.cycle = c /\ team.state = "disbanding"]_vars

\* A cycle comes to its end although commands are lost, clients stop or lose
\* their connection, and the server restarts at any moment, unless a transaction
\* failed.
CycleEnds == team.state # "idle" ~> team.state = "idle" \/ lost > 0

\* A transient failure does not leave the team stuck (boss_cycle.go:277-281).
NeverStuck == team.state # "idle" ~> team.state = "idle"
=============================================================================
