---------------------------- MODULE BossCycleProofs ----------------------------
(***************************************************************************)
(* Theorems about BossCycle, for every team and every number of cycles,    *)
(* faults, lost connections and failed transactions.                       *)
(***************************************************************************)
EXTENDS BossCycle, TLAPS

\* What a reconciliation read is of this cycle or of an earlier one.
ReadsPast ==
  \A m \in Members : reconcile[m].pc # "none" => reconcile[m].cycle <= team.cycle

\* A member that the cycle waits for has not completed it.
OwesThis == \A m \in owing : completed[m] # team.cycle

\* The snapshot of a reconciliation covers all the members that its cycle waits
\* for by the time it commits.
SnapshotCovers ==
  \A m \in Members :
    reconcile[m].pc = "snapshot" /\ reconcile[m].cycle = team.cycle
      => owing \subseteq reconcile[m].skip \cup reconcile[m].pending

\* A team that is not idle, or whose rows are being cleared, has a cycle.
Begun == team.state # "idle" \/ clearing => team.cycle # 0

\* The types, and what they rest on.
TypeInv == TypeOK /\ Begun

\* The inductive invariant of the members that a cycle waits for.
OwedInv ==
  /\ TypeInv
  /\ ReadsPast
  /\ OwesThis
  /\ SnapshotCovers
  /\ NoEarlyDisband

\* The leader is told to disband cycle c in time, or began to before.
Told(c) ==
  \/ team.cycle = c /\ team.state = "disbanding"
  \/ job[Leader]["disband"][c] # "none"

\* Commands to disband are for the leader and in time, also those that a
\* reconciliation is about to repeat.
DisbandsTold ==
  /\ \A x \in wire : x.action = "disband" => x.to = Leader /\ Told(x.cycle)
  /\ \A m \in Members :
       reconcile[m].pc = "read" /\ reconcile[m].state = "disbanding"
         => Told(reconcile[m].cycle)

DisbandInv == TypeInv /\ DisbandsTold

-----------------------------------------------------------------------------
\* Types of the operators the actions are built from.
LEMMA OperatorTypes ==
  ASSUME NEW c \in Cycles, NEW m \in Members
  PROVE  /\ Cast(m, c) \in Commands
         /\ Start(c) \in Commands
         /\ Disband(c) \in Commands
         /\ c \in 0..MaxCycle
BY CycleAssumption DEF Cast, Start, Disband, Commands, Actions, Cycles

\* Completing a cycle for some members leaves a function of the members.
LEMMA CompleteType ==
  ASSUME NEW done \in [Members -> 0..MaxCycle], NEW S, NEW c \in 0..MaxCycle
  PROVE  Complete(done, S, c) \in [Members -> 0..MaxCycle]
BY DEF Complete

\* The type of the jobs, when one of them is written.
JobType == [Members -> [Actions -> [Cycles -> Phases]]]

LEMMA JobWritten ==
  ASSUME NEW j \in JobType,
         NEW m \in Members, NEW a \in Actions, NEW c \in Cycles, NEW v \in Phases
  PROVE  [j EXCEPT ![m][a][c] = v] \in JobType
<1>1. [j[m][a] EXCEPT ![c] = v] \in [Cycles -> Phases]
  BY DEF JobType
<1>2. [j[m] EXCEPT ![a] = [j[m][a] EXCEPT ![c] = v]] \in [Actions -> [Cycles -> Phases]]
  BY <1>1 DEF JobType
<1> QED BY <1>2 DEF JobType

\* An acknowledgement writes the entry of one receipt, or none.
LEMMA AcknowledgeType ==
  ASSUME NEW m \in Members, NEW a \in Actions, NEW c \in Cycles,
         job \in JobType, faults \in 0..MaxFaults, Acknowledge(m, a, c)
  PROVE  job' \in JobType /\ faults' \in 0..MaxFaults
<1>1. [job EXCEPT ![m][a][c] = "acked"] \in JobType
  BY JobWritten, "acked" \in Phases DEF Phases
<1> QED BY <1>1, CycleAssumption DEF Acknowledge, MayFail

\* What a handler reads is nothing, or a state and a cycle of the team.
LEMMA ReadType ==
  ASSUME team \in [state : States, cycle : 0..MaxCycle, created : BOOLEAN],
         Begun
  PROVE  Read \in Reconciles
BY CycleAssumption DEF Read, Reconciles, NoReconcile, States, Cycles, Begun

-----------------------------------------------------------------------------
\* The rows, the wire and the clients have their types in every state.
LEMMA TypeInit == Init => TypeInv
<1> SUFFICES ASSUME Init
             PROVE  TypeInv
  OBVIOUS
<1>1. clearing \in BOOLEAN /\ ~clearing /\ team.state = "idle"
  BY DEF Init
<1>2. TypeOK
  BY <1>1, CycleAssumption DEF Init, TypeOK, NoReconcile, States, Reconciles, Phases
<1> QED BY <1>1, <1>2 DEF TypeInv, Begun

LEMMA TypeStep == TypeInv /\ [Next]_vars => TypeInv'
<1> SUFFICES ASSUME TypeInv, [Next]_vars
             PROVE  TypeInv'
  OBVIOUS
<1> USE CycleAssumption
        DEF TypeInv, TypeOK, Begun, rows, status, wires, bounds, MayFail, MayDrop, MayLose
<1>a. /\ job \in JobType /\ faults \in 0..MaxFaults
      /\ team.cycle \in 0..MaxCycle /\ team.state \in States
  BY DEF JobType
<1>b. Cycles \subseteq 0..MaxCycle /\ \A c \in 0..MaxCycle : c # 0 => c \in Cycles
  BY DEF Cycles
<1>1. ASSUME TeamCreated
      PROVE  TypeInv'
  BY <1>1 DEF TeamCreated
<1>2. ASSUME NEW m \in Members, TeamJoined(m)
      PROVE  TypeInv'
  BY <1>2 DEF TeamJoined
<1>3. ASSUME StartCycle
      PROVE  TypeInv'
  <2> DEFINE active == {m \in Members : Active(m)}
  <2>1. team.cycle + 1 \in Cycles
    BY <1>3 DEF StartCycle, Cycles
  <2>2. FrozenAfter(active, team.cycle + 1) \in [Members -> 0..MaxCycle]
    BY <2>1, <1>b DEF FrozenAfter
  <2>3. team' \in [state : States, cycle : 0..MaxCycle, created : BOOLEAN]
    BY <1>3, <2>1, <1>b DEF StartCycle, States
  <2>4. team'.cycle = team.cycle + 1 /\ team'.cycle # 0
    BY <1>3, <2>1 DEF StartCycle, Cycles
  <2>5. starting' \subseteq Cycles /\ owing' \subseteq Members
    BY <1>3, <2>1 DEF StartCycle
  <2>6. completed' \in [Members -> 0..MaxCycle]
    BY <1>3, <2>2 DEF StartCycle
  <2> QED BY <1>3, <2>3, <2>4, <2>5, <2>6 DEF StartCycle
<1>4. ASSUME NEW c \in Cycles, StartSent(c)
      PROVE  TypeInv'
  BY <1>4, OperatorTypes DEF StartSent
<1>5. ASSUME NEW c \in Cycles, StartFailed(c)
      PROVE  TypeInv'
  BY <1>5 DEF StartFailed, SendFails
<1>6. ASSUME NEW c \in Cycles, StartReverted(c)
      PROVE  TypeInv'
  BY <1>6 DEF StartReverted, States
<1>7. ASSUME NEW c \in Cycles, BossJoined(c)
      PROVE  TypeInv'
  <2>1. job' \in JobType /\ faults' \in 0..MaxFaults
    BY <1>7, <1>a, AcknowledgeType DEF BossJoined, Actions
  <2>2. MayMarkJoined(c) => team.state # "idle"
    BY DEF MayMarkJoined
  <2>3. wire' \subseteq Commands
    BY <1>7, OperatorTypes DEF BossJoined, Pending
  <2> QED BY <1>7, <2>1, <2>2, <2>3 DEF BossJoined, JobType, States
<1>8. ASSUME NEW c \in Cycles, CycleDisbanded(c)
      PROVE  TypeInv'
  <2>1. job' \in JobType /\ faults' \in 0..MaxFaults
    BY <1>8, <1>a, AcknowledgeType DEF CycleDisbanded, Actions
  <2> QED BY <1>8, <2>1 DEF CycleDisbanded, MayEnd, JobType, States
<1>9. ASSUME NEW m \in Members, NEW c \in Cycles, BuffCompleted(m, c)
      PROVE  TypeInv'
  <2> DEFINE own == Complete(completed, {m}, c)
             done == Complete(own, Skipped(own, c), c)
  <2>1. job' \in JobType /\ faults' \in 0..MaxFaults
    BY <1>9, <1>a, AcknowledgeType DEF BuffCompleted, Actions
  <2>2. own \in [Members -> 0..MaxCycle]
    BY <1>b, CompleteType
  <2>3. done \in [Members -> 0..MaxCycle]
    BY <2>2, <1>b, CompleteType
  <2>4. completed' \in [Members -> 0..MaxCycle]
    BY <1>9, <2>3 DEF BuffCompleted
  <2>5. wire' \subseteq Commands
    BY <1>9, OperatorTypes DEF BuffCompleted
  <2>6. MayMarkCompleted(m, c) => team.state # "idle"
    BY DEF MayMarkCompleted
  <2> QED BY <1>9, <2>1, <2>4, <2>5, <2>6 DEF BuffCompleted, JobType, States
<1>10. ASSUME NEW m \in Members, NEW a \in Actions, NEW c \in Cycles,
              ReceiptLost(m, a, c)
       PROVE  TypeInv'
  <2>1. job' \in JobType /\ faults' \in 0..MaxFaults
    BY <1>10, <1>a, AcknowledgeType DEF ReceiptLost
  <2> QED BY <1>10, <2>1 DEF ReceiptLost, JobType
<1>11. ASSUME MembersCleared
       PROVE  TypeInv'
  <2>1. team.cycle \in Cycles
    BY <1>11, <1>a, <1>b DEF MembersCleared
  <2>2. job' \in JobType /\ faults' \in 0..MaxFaults
    BY <1>11, <2>1, <1>a, AcknowledgeType DEF MembersCleared, Actions
  <2>3. clearing' \in BOOLEAN /\ ~clearing' /\ team' = team
    BY <1>11 DEF MembersCleared
  <2> QED BY <1>11, <2>2, <2>3, <1>a DEF MembersCleared, JobType
<1>12. ASSUME ClearingLost
       PROVE  TypeInv'
  <2>1. clearing' \in BOOLEAN /\ ~clearing' /\ team' = team
    BY <1>12 DEF ClearingLost
  <2> QED BY <1>12, <2>1 DEF ClearingLost
<1>13. ASSUME NEW x \in wire, CommandLost(x)
       PROVE  TypeInv'
  BY <1>13 DEF CommandLost, SendFails
<1>14. ASSUME NEW x \in wire, Receive(x)
       PROVE  TypeInv'
  <2>1. x.to \in Members /\ x.action \in Actions /\ x.cycle \in Cycles
    BY DEF Commands
  <2>2. [job EXCEPT ![x.to][x.action][x.cycle] = "working"] \in JobType
    BY <2>1, <1>a, JobWritten, "working" \in Phases DEF Phases
  <2>3. job' \in JobType
    BY <1>14, <1>a, <2>2 DEF Receive
  <2> QED BY <1>14, <2>3 DEF Receive, JobType
<1>15. ASSUME NEW m \in Members, ReconcileRepeat(m)
       PROVE  TypeInv'
  <2>1. reconcile[m].cycle \in Cycles
    BY <1>15 DEF ReconcileRepeat, Reconciles, NoReconcile
  <2>2. Repeated(reconcile[m].state, reconcile[m].cycle) \in Commands
    BY <2>1, OperatorTypes DEF Repeated
  <2>3. wire' \subseteq Commands /\ reconcile' \in [Members -> Reconciles]
    BY <1>15, <2>2 DEF ReconcileRepeat, Reconciles
  <2> QED BY <1>15, <2>3 DEF ReconcileRepeat
<1>16. ASSUME NEW m \in Members, ReconcileSnapshot(m)
       PROVE  TypeInv'
  <2> DEFINE r == reconcile[m]
             read == [pc |-> "snapshot", cycle |-> r.cycle,
                      skip |-> Skipped(completed, r.cycle),
                      pending |-> Pending(r.cycle) \ Skipped(completed, r.cycle)]
  <2>1. r.cycle \in Cycles
    BY <1>16 DEF ReconcileSnapshot, Reconciles, NoReconcile
  <2>2. read \in Reconciles
    BY <2>1 DEF Reconciles, Skipped, Pending
  <2>3. reconcile' \in [Members -> Reconciles]
    BY <1>16, <2>2 DEF ReconcileSnapshot
  <2> QED BY <1>16, <2>3 DEF ReconcileSnapshot
<1>17. ASSUME NEW m \in Members, ReconcileCommit(m)
       PROVE  TypeInv'
  <2> DEFINE r == reconcile[m]
  <2>1. r.cycle \in Cycles /\ r.pending \subseteq Members
    BY <1>17 DEF ReconcileCommit, Reconciles, NoReconcile
  <2>2. completed' \in [Members -> 0..MaxCycle]
    BY <1>17, <2>1, <1>b, CompleteType DEF ReconcileCommit
  <2>3. wire' \subseteq Commands
    BY <1>17, <2>1, OperatorTypes DEF ReconcileCommit
  <2>4. reconcile' \in [Members -> Reconciles]
    BY <1>17 DEF ReconcileCommit, Reconciles
  <2>5. EndsCasting(r) => team.state # "idle"
    BY DEF EndsCasting
  <2> QED BY <1>17, <2>2, <2>3, <2>4, <2>5 DEF ReconcileCommit, States
<1>18. ASSUME NEW m \in Members, Connect(m)
       PROVE  TypeInv'
  BY <1>18 DEF Connect
<1>19. ASSUME NEW m \in Members, ConnectionEnds(m)
       PROVE  TypeInv'
  <2>1. reconcile' \in [Members -> Reconciles]
    BY <1>19, ReadType DEF ConnectionEnds
  <2> QED BY <1>19, <2>1 DEF ConnectionEnds
<1>20. ASSUME NEW m \in Members, NEW runs \in BOOLEAN, ClientState(m, runs)
       PROVE  TypeInv'
  <2>1. reconcile' \in [Members -> Reconciles]
    BY <1>20, ReadType DEF ClientState
  <2>2. wire' \subseteq Commands
    BY <1>20, <1>b, OperatorTypes DEF ClientState
  <2> QED BY <1>20, <2>1, <2>2 DEF ClientState
<1>21. ASSUME Restart
       PROVE  TypeInv'
  <2>1. clearing' \in BOOLEAN /\ ~clearing' /\ team' = team
    BY <1>21 DEF Restart
  <2>2. reconcile' \in [Members -> Reconciles]
    BY <1>21 DEF Restart, Reconciles
  <2> QED BY <1>21, <2>1, <2>2 DEF Restart
<1>22. CASE UNCHANGED vars
  BY <1>22 DEF vars
<1> QED
  BY <1>1, <1>2, <1>3, <1>4, <1>5, <1>6, <1>7, <1>8, <1>9, <1>10, <1>11, <1>12,
     <1>13, <1>14, <1>15, <1>16, <1>17, <1>18, <1>19, <1>20, <1>21, <1>22
  DEF Next, PartyStep, StartStep, SaveRopeTeamBoss, BuffDue, ReceiptStep,
      CommandStep, ReconcileStep, ConnectionStep

-----------------------------------------------------------------------------
(***************************************************************************)
(* The members a cycle waits for.                                          *)
(***************************************************************************)
\* A step that leaves the completions, the waiting members and the number of
\* the cycle alone, and reads at most the present cycle, keeps the invariant.
LEMMA OwedKept ==
  ASSUME OwedInv, TypeInv',
         team'.cycle = team.cycle,
         team'.state = "disbanding" => team.state = "disbanding",
         completed' = completed, owing' = owing,
         \A m \in Members :
           \/ reconcile'[m] = reconcile[m]
           \/ reconcile'[m].pc = "none"
           \/ reconcile'[m].pc = "read" /\ reconcile'[m].cycle <= team.cycle
  PROVE  OwedInv'
BY DEF OwedInv, ReadsPast, OwesThis, SnapshotCovers, NoEarlyDisband

\* What a handler reads is of the present cycle.
LEMMA ReadsNow ==
  \/ Read.pc = "none"
  \/ Read.pc = "read" /\ Read.cycle = team.cycle
BY DEF Read, NoReconcile

\* The records a reconciliation can hold.
LEMMA ReconcileCases ==
  ASSUME NEW r \in Reconciles
  PROVE  /\ r.pc \in {"none", "read", "snapshot"}
         /\ r.pc # "none" => r.cycle \in Cycles
         /\ r.pc = "snapshot" => r.skip \subseteq Members /\ r.pending \subseteq Members
BY DEF Reconciles, NoReconcile

LEMMA OwedInit == Init => OwedInv
<1> SUFFICES ASSUME Init
             PROVE  OwedInv
  OBVIOUS
<1>1. owing = {} /\ team.state = "idle" /\ \A m \in Members : reconcile[m].pc = "none"
  BY DEF Init, NoReconcile
<1> QED BY <1>1, TypeInit
        DEF OwedInv, ReadsPast, OwesThis, SnapshotCovers, NoEarlyDisband

LEMMA OwedStep == OwedInv /\ [Next]_vars => OwedInv'
<1> SUFFICES ASSUME OwedInv, [Next]_vars
             PROVE  OwedInv'
  OBVIOUS
<1>a. TypeInv /\ TypeInv'
  BY TypeStep DEF OwedInv
<1>b. /\ team \in [state : States, cycle : 0..MaxCycle, created : BOOLEAN]
      /\ completed \in [Members -> 0..MaxCycle] /\ owing \subseteq Members
      /\ reconcile \in [Members -> Reconciles]
  BY <1>a DEF TypeInv, TypeOK
<1>c. team.cycle \in Nat /\ team.cycle <= team.cycle
  BY <1>b, CycleAssumption
<1>d. \A m \in Members : /\ reconcile[m].pc \in {"none", "read", "snapshot"}
                         /\ reconcile[m].pc # "none" => reconcile[m].cycle \in Nat \ {0}
  BY <1>b, ReconcileCases, CycleAssumption DEF Cycles
<1> USE DEF rows, status, wires, bounds
<1>1. ASSUME TeamCreated
      PROVE  OwedInv'
  BY <1>1, <1>a, <1>b, OwedKept DEF TeamCreated
<1>2. ASSUME NEW m \in Members, TeamJoined(m)
      PROVE  OwedInv'
  BY <1>2, <1>a, OwedKept DEF TeamJoined
<1>3. ASSUME StartCycle
      PROVE  OwedInv'
  <2>1. team'.cycle = team.cycle + 1 /\ team'.state = "inviting" /\ reconcile' = reconcile
    BY <1>3, <1>b DEF StartCycle
  <2>2. ReadsPast' /\ SnapshotCovers'
    BY <2>1, <1>c, <1>d DEF OwedInv, ReadsPast, SnapshotCovers
  <2>3. \A m \in owing' : completed'[m] = 0
    BY <1>3 DEF StartCycle, FrozenAfter
  <2>4. OwesThis'
    BY <2>1, <2>3, <1>c DEF OwesThis
  <2> QED BY <1>a, <2>1, <2>2, <2>4 DEF OwedInv, NoEarlyDisband
<1>4. ASSUME NEW c \in Cycles, StartSent(c)
      PROVE  OwedInv'
  BY <1>4, <1>a, OwedKept DEF StartSent
<1>5. ASSUME NEW c \in Cycles, StartFailed(c)
      PROVE  OwedInv'
  BY <1>5, <1>a, OwedKept DEF StartFailed
<1>6. ASSUME NEW c \in Cycles, StartReverted(c)
      PROVE  OwedInv'
  BY <1>6, <1>a, <1>b, OwedKept DEF StartReverted
<1>7. ASSUME NEW c \in Cycles, BossJoined(c)
      PROVE  OwedInv'
  BY <1>7, <1>a, <1>b, OwedKept DEF BossJoined
<1>8. ASSUME NEW c \in Cycles, CycleDisbanded(c)
      PROVE  OwedInv'
  BY <1>8, <1>a, <1>b, OwedKept DEF CycleDisbanded
<1>9. ASSUME NEW m \in Members, NEW c \in Cycles, BuffCompleted(m, c)
      PROVE  OwedInv'
  <2> DEFINE own == Complete(completed, {m}, c)
             skip == Skipped(own, c)
             done == Complete(own, skip, c)
  <2>1. CASE ~MayMarkCompleted(m, c)
    BY <1>9, <2>1, <1>a, OwedKept DEF BuffCompleted
  <2>2. CASE MayMarkCompleted(m, c)
    <3>1. /\ completed' = done /\ owing' = owing \ ({m} \cup skip)
          /\ reconcile' = reconcile /\ team.cycle = c /\ team'.cycle = c
      BY <1>9, <2>2, <1>b DEF BuffCompleted, MayMarkCompleted
    <3>2. \A p \in owing' : done[p] = completed[p]
      BY <3>1, <1>b DEF Complete
    <3>3. \A p \in owing' : done[p] # c
      BY <3>1, <3>2 DEF OwedInv, OwesThis
    <3>4. ReadsPast' /\ OwesThis' /\ SnapshotCovers'
      BY <3>1, <3>3 DEF OwedInv, ReadsPast, OwesThis, SnapshotCovers
    <3>5. team'.state = "disbanding" => AllDone(done, c)
      BY <1>9, <2>2, <1>b DEF BuffCompleted, MayMarkCompleted
    <3>6. owing' \subseteq Members
      BY <3>1, <1>b
    <3> QED BY <1>a, <3>3, <3>4, <3>5, <3>6 DEF OwedInv, NoEarlyDisband, AllDone
  <2> QED BY <2>1, <2>2
<1>10. ASSUME NEW m \in Members, NEW a \in Actions, NEW c \in Cycles,
              ReceiptLost(m, a, c)
       PROVE  OwedInv'
  BY <1>10, <1>a, OwedKept DEF ReceiptLost
<1>11. ASSUME MembersCleared
       PROVE  OwedInv'
  <2>1. /\ team' = team /\ owing' = owing /\ reconcile' = reconcile
        /\ completed' = [m \in Members |-> 0]
    BY <1>11 DEF MembersCleared
  <2>2. team.cycle # 0
    BY <1>11, <1>a DEF MembersCleared, TypeInv, Begun
  <2>3. OwesThis'
    BY <2>1, <2>2, <1>b DEF OwesThis
  <2> QED BY <1>a, <2>1, <2>3 DEF OwedInv, ReadsPast, SnapshotCovers, NoEarlyDisband
<1>12. ASSUME ClearingLost
       PROVE  OwedInv'
  BY <1>12, <1>a, OwedKept DEF ClearingLost
<1>13. ASSUME NEW x \in wire, CommandLost(x)
       PROVE  OwedInv'
  BY <1>13, <1>a, OwedKept DEF CommandLost
<1>14. ASSUME NEW x \in wire, Receive(x)
       PROVE  OwedInv'
  BY <1>14, <1>a, OwedKept DEF Receive
<1>15. ASSUME NEW m \in Members, ReconcileRepeat(m)
       PROVE  OwedInv'
  BY <1>15, <1>a, <1>b, OwedKept DEF ReconcileRepeat, NoReconcile
<1>16. ASSUME NEW m \in Members, ReconcileSnapshot(m)
       PROVE  OwedInv'
  <2> DEFINE r == reconcile[m]
  <2>1. /\ UNCHANGED <<team, completed, owing>>
        /\ \A p \in Members : p # m => reconcile'[p] = reconcile[p]
        /\ reconcile'[m].cycle = r.cycle
        /\ reconcile'[m].skip = Skipped(completed, r.cycle)
        /\ reconcile'[m].pending = Pending(r.cycle) \ Skipped(completed, r.cycle)
    BY <1>16, <1>b DEF ReconcileSnapshot
  <2>2. r.cycle <= team.cycle
    BY <1>16 DEF ReconcileSnapshot, OwedInv, ReadsPast
  <2>3. r.cycle = team.cycle => owing \subseteq Pending(r.cycle)
    BY <1>b DEF OwedInv, OwesThis, Pending
  <2>4. SnapshotCovers'
    BY <2>1, <2>3 DEF OwedInv, SnapshotCovers
  <2>5. ReadsPast'
    BY <2>1, <2>2 DEF OwedInv, ReadsPast
  <2> QED BY <1>a, <2>1, <2>4, <2>5 DEF OwedInv, OwesThis, NoEarlyDisband
<1>17. ASSUME NEW m \in Members, ReconcileCommit(m)
       PROVE  OwedInv'
  <2> DEFINE r == reconcile[m]
  <2>1. /\ r.pc = "snapshot"
        /\ completed' = Complete(completed, r.skip, r.cycle)
        /\ owing' = IF r.cycle = team.cycle THEN owing \ r.skip ELSE owing
        /\ \A p \in Members : p # m => reconcile'[p] = reconcile[p]
        /\ reconcile'[m].pc = "none"
        /\ team'.cycle = team.cycle
    BY <1>17, <1>b DEF ReconcileCommit, NoReconcile
  <2>2. owing' \subseteq owing
    BY <2>1
  <2>3. OwesThis'
    BY <2>1, <2>2, <1>b DEF OwedInv, OwesThis, Complete
  <2>4. ReadsPast' /\ SnapshotCovers'
    <3>1. ReadsPast'
      BY <2>1 DEF OwedInv, ReadsPast
    <3>2. ASSUME NEW p \in Members, reconcile'[p].pc = "snapshot",
                 reconcile'[p].cycle = team'.cycle
          PROVE  owing' \subseteq reconcile'[p].skip \cup reconcile'[p].pending
      BY <2>1, <2>2, <3>2 DEF OwedInv, SnapshotCovers
    <3> QED BY <3>1, <3>2 DEF SnapshotCovers
  <2>5. CASE EndsCasting(r)
    <3>1. r.cycle = team.cycle /\ r.pending = {}
      BY <2>5 DEF EndsCasting
    <3>2. owing \subseteq r.skip
      BY <2>1, <3>1 DEF OwedInv, SnapshotCovers
    <3>3. owing' = {}
      BY <2>1, <3>1, <3>2
    <3> QED BY <1>a, <2>3, <2>4, <3>3 DEF OwedInv, NoEarlyDisband
  <2>6. CASE ~EndsCasting(r)
    <3>1. team' = team
      BY <1>17, <2>6 DEF ReconcileCommit
    <3>2. NoEarlyDisband'
      BY <3>1, <2>2 DEF OwedInv, NoEarlyDisband
    <3> QED BY <1>a, <2>3, <2>4, <3>2 DEF OwedInv
  <2> QED BY <2>5, <2>6
<1>18. ASSUME NEW m \in Members, Connect(m)
       PROVE  OwedInv'
  BY <1>18, <1>a, OwedKept DEF Connect
<1>19. ASSUME NEW m \in Members, ConnectionEnds(m)
       PROVE  OwedInv'
  <2>1. \A p \in Members : reconcile'[p] = reconcile[p] \/ reconcile'[p] = Read
    BY <1>19, <1>b DEF ConnectionEnds
  <2> QED BY <1>19, <2>1, <1>a, <1>c, ReadsNow, OwedKept DEF ConnectionEnds
<1>20. ASSUME NEW m \in Members, NEW runs \in BOOLEAN, ClientState(m, runs)
       PROVE  OwedInv'
  <2>1. \A p \in Members : reconcile'[p] = reconcile[p] \/ reconcile'[p] = Read
    BY <1>20, <1>b DEF ClientState
  <2> QED BY <1>20, <2>1, <1>a, <1>c, ReadsNow, OwedKept DEF ClientState
<1>21. ASSUME Restart
       PROVE  OwedInv'
  BY <1>21, <1>a, OwedKept DEF Restart, NoReconcile
<1>22. CASE UNCHANGED vars
  BY <1>22, <1>a, OwedKept DEF vars
<1> QED
  BY <1>1, <1>2, <1>3, <1>4, <1>5, <1>6, <1>7, <1>8, <1>9, <1>10, <1>11, <1>12,
     <1>13, <1>14, <1>15, <1>16, <1>17, <1>18, <1>19, <1>20, <1>21, <1>22
  DEF Next, PartyStep, StartStep, SaveRopeTeamBoss, BuffDue, ReceiptStep,
      CommandStep, ReconcileStep, ConnectionStep

\* The rows have their types.
THEOREM CycleTypeOK == Spec => []TypeOK
<1>1. Init => TypeInv
  BY TypeInit
<1>2. TypeInv /\ [Next]_vars => TypeInv'
  BY TypeStep
<1>3. TypeInv => TypeOK
  BY DEF TypeInv
<1> QED BY <1>1, <1>2, <1>3, PTL DEF Spec

\* A team begins to disband only when every member that the cycle started with
\* has reported completion or was found inactive since: neither a stale
\* reconciliation nor a late receipt ends the cycle too early.
THEOREM CycleNoEarlyDisband == Spec => []NoEarlyDisband
<1>1. OwedInv => NoEarlyDisband
  BY DEF OwedInv
<1> QED BY <1>1, OwedInit, OwedStep, PTL DEF Spec

-----------------------------------------------------------------------------
(***************************************************************************)
(* The command to disband.                                                 *)
(***************************************************************************)
\* What an acknowledgement does to the jobs: none begins, none is undone.
LEMMA AcknowledgeBegins ==
  ASSUME NEW m \in Members, NEW a \in Actions, NEW c \in Cycles,
         job \in JobType, Acknowledge(m, a, c),
         NEW d \in Cycles
  PROVE  \/ job'[Leader]["disband"][d] = job[Leader]["disband"][d]
         \/ job'[Leader]["disband"][d] = "acked" /\ m = Leader /\ a = "disband" /\ d = c
BY CycleAssumption DEF Acknowledge, JobType, Actions

\* Only the receipt of a command lets the leader begin with it.
LEMMA LeaderBegins ==
  ASSUME NEW x \in Commands, job \in JobType, Receive(x), NEW d \in Cycles
  PROVE  \/ job'[Leader]["disband"][d] = job[Leader]["disband"][d]
         \/ /\ job'[Leader]["disband"][d] = "working"
            /\ x.to = Leader /\ x.action = "disband" /\ x.cycle = d
BY CycleAssumption DEF Receive, JobType, Actions, Commands

\* A step that begins and undoes no job of the leader, and keeps a cycle that
\* is disbanding, leaves what was told.
LEMMA ToldKept ==
  ASSUME NEW c \in Cycles, Told(c),
         team.state = "disbanding" => team' = team,
         \/ job'[Leader]["disband"][c] = job[Leader]["disband"][c]
         \/ job'[Leader]["disband"][c] # "none"
  PROVE  Told(c)'
BY DEF Told

LEMMA ToldStep ==
  ASSUME TypeInv, [Next]_vars, NEW d \in Cycles, Told(d)
  PROVE  Told(d)'
<1> USE DEF rows, status, wires, bounds
<1>a. job \in JobType /\ "disband" \in Actions
  BY DEF TypeInv, TypeOK, JobType, Actions
<1>b. team \in [state : States, cycle : 0..MaxCycle, created : BOOLEAN]
  BY DEF TypeInv, TypeOK
<1>1. ASSUME TeamCreated
      PROVE  Told(d)'
  BY <1>1, <1>b DEF TeamCreated, Told
<1>2. ASSUME NEW m \in Members, TeamJoined(m)
      PROVE  Told(d)'
  BY <1>2, ToldKept DEF TeamJoined
<1>3. ASSUME StartCycle
      PROVE  Told(d)'
  BY <1>3, ToldKept DEF StartCycle, MayStart
<1>4. ASSUME NEW c \in Cycles, StartSent(c) \/ StartFailed(c)
      PROVE  Told(d)'
  BY <1>4, ToldKept DEF StartSent, StartFailed
<1>5. ASSUME NEW c \in Cycles, StartReverted(c)
      PROVE  Told(d)'
  BY <1>5, ToldKept DEF StartReverted, Reverts
<1>6. ASSUME NEW c \in Cycles, BossJoined(c)
      PROVE  Told(d)'
  <2>1. "start" \in Actions /\ Leader \in Members
    BY CycleAssumption DEF Actions
  <2> QED BY <1>6, <1>a, <2>1, AcknowledgeBegins, ToldKept DEF BossJoined, MayMarkJoined
<1>7. ASSUME NEW c \in Cycles, CycleDisbanded(c)
      PROVE  Told(d)'
  <2>1. CASE MayEnd(c)
    <3>1. job' = job /\ team.cycle = c /\ job[Leader]["disband"][c] = "working"
      BY <1>7, <2>1 DEF CycleDisbanded, MayEnd, Reports
    <3> QED BY <3>1 DEF Told
  <2>2. CASE ~MayEnd(c)
    BY <1>7, <2>2, <1>a, CycleAssumption, AcknowledgeBegins, ToldKept DEF CycleDisbanded
  <2> QED BY <2>1, <2>2
<1>8. ASSUME NEW m \in Members, NEW c \in Cycles, BuffCompleted(m, c)
      PROVE  Told(d)'
  <2>1. "cast" \in Actions
    BY DEF Actions
  <2> QED BY <1>8, <1>a, <2>1, AcknowledgeBegins, ToldKept DEF BuffCompleted, MayMarkCompleted
<1>9. ASSUME NEW m \in Members, NEW a \in Actions, NEW c \in Cycles,
             ReceiptLost(m, a, c)
      PROVE  Told(d)'
  BY <1>9, <1>a, AcknowledgeBegins, ToldKept DEF ReceiptLost
<1>10. ASSUME MembersCleared
       PROVE  Told(d)'
  <2>1. team.cycle \in Cycles
    BY <1>10, <1>b, CycleAssumption DEF MembersCleared, TypeInv, Begun, Cycles
  <2> QED BY <1>10, <1>a, <2>1, CycleAssumption, AcknowledgeBegins, ToldKept
          DEF MembersCleared
<1>11. ASSUME ClearingLost
       PROVE  Told(d)'
  BY <1>11, ToldKept DEF ClearingLost
<1>12. ASSUME NEW x \in wire, CommandLost(x)
       PROVE  Told(d)'
  BY <1>12, ToldKept DEF CommandLost
<1>13. ASSUME NEW x \in wire, Receive(x)
       PROVE  Told(d)'
  <2>1. x \in Commands
    BY DEF TypeInv, TypeOK
  <2> QED BY <1>13, <1>a, <2>1, LeaderBegins, ToldKept DEF Receive
<1>14. ASSUME NEW m \in Members, ReconcileRepeat(m) \/ ReconcileSnapshot(m)
       PROVE  Told(d)'
  BY <1>14, ToldKept DEF ReconcileRepeat, ReconcileSnapshot
<1>15. ASSUME NEW m \in Members, ReconcileCommit(m)
       PROVE  Told(d)'
  BY <1>15, ToldKept DEF ReconcileCommit, EndsCasting
<1>16. ASSUME NEW m \in Members, Connect(m) \/ ConnectionEnds(m)
       PROVE  Told(d)'
  BY <1>16, ToldKept DEF Connect, ConnectionEnds
<1>17. ASSUME NEW m \in Members, NEW runs \in BOOLEAN, ClientState(m, runs)
       PROVE  Told(d)'
  BY <1>17, ToldKept DEF ClientState
<1>18. ASSUME Restart
       PROVE  Told(d)'
  BY <1>18, ToldKept DEF Restart
<1>19. CASE UNCHANGED vars
  BY <1>19, ToldKept DEF vars
<1> QED
  BY <1>1, <1>2, <1>3, <1>4, <1>5, <1>6, <1>7, <1>8, <1>9, <1>10, <1>11, <1>12,
     <1>13, <1>14, <1>15, <1>16, <1>17, <1>18, <1>19
  DEF Next, PartyStep, StartStep, SaveRopeTeamBoss, BuffDue, ReceiptStep,
      CommandStep, ReconcileStep, ConnectionStep

\* A step that queues only other commands, or commands to disband in time, and
\* lets handlers read the row as it is, keeps the invariant.
LEMMA DisbandsKept ==
  ASSUME DisbandInv, [Next]_vars,
         \A x \in wire' : \/ x \in wire
                          \/ x.action # "disband"
                          \/ x.to = Leader /\ Told(x.cycle)',
         \A m \in Members : \/ reconcile'[m] = reconcile[m]
                            \/ reconcile'[m].pc # "read"
                            \/ reconcile'[m] = Read
  PROVE  DisbandInv'
<1>1. TypeInv /\ TypeInv'
  BY TypeStep DEF DisbandInv
<1>2. \A d \in Cycles : Told(d) => Told(d)'
  BY <1>1, ToldStep
<1>3. /\ wire \subseteq Commands
      /\ reconcile \in [Members -> Reconciles]
      /\ Read \in Reconciles
  BY <1>1, ReadType DEF TypeInv, TypeOK
<1>4. ASSUME NEW x \in wire', x.action = "disband"
      PROVE  x.to = Leader /\ Told(x.cycle)'
  <2>1. x \in wire => x.cycle \in Cycles
    BY <1>3 DEF Commands
  <2>2. x \in wire => x.to = Leader /\ Told(x.cycle)
    BY <1>4 DEF DisbandInv, DisbandsTold
  <2> QED BY <1>2, <1>4, <2>1, <2>2
<1>5. ASSUME NEW m \in Members, NEW d \in Cycles,
             reconcile'[m].pc = "read", reconcile'[m].state = "disbanding",
             reconcile'[m].cycle = d
      PROVE  Told(d)'
  <2>1. CASE reconcile'[m] = reconcile[m]
    <3>1. Told(d)
      BY <1>5, <2>1 DEF DisbandInv, DisbandsTold, Told
    <3> QED BY <1>2, <3>1
  <2>2. CASE reconcile'[m] = Read
    <3>1. team.state # "idle"
      BY <1>5, <2>2 DEF Read, NoReconcile
    <3>2. Read.cycle = team.cycle /\ Read.state = team.state
      BY <3>1 DEF Read
    <3>3. Told(d)
      BY <1>5, <2>2, <3>2 DEF Told
    <3> QED BY <1>2, <3>3
  <2> QED BY <1>5, <2>1, <2>2
<1>6. \A m \in Members : reconcile'[m].pc = "read" => reconcile'[m].cycle \in Cycles
  BY <1>1, ReconcileCases DEF TypeInv, TypeOK
<1>7. \A m \in Members :
        reconcile'[m].pc = "read" /\ reconcile'[m].state = "disbanding"
          => \/ team'.cycle = reconcile'[m].cycle /\ team'.state = "disbanding"
             \/ job'[Leader]["disband"][reconcile'[m].cycle] # "none"
  BY <1>5, <1>6 DEF Told
<1> QED BY <1>1, <1>4, <1>7 DEF DisbandInv, DisbandsTold, Told

LEMMA DisbandInit == Init => DisbandInv
BY TypeInit DEF Init, DisbandInv, DisbandsTold, NoReconcile

LEMMA DisbandStep == DisbandInv /\ [Next]_vars => DisbandInv'
<1> SUFFICES ASSUME DisbandInv, [Next]_vars
             PROVE  DisbandInv'
  OBVIOUS
<1> USE DEF rows, status, wires, bounds
<1>a. /\ reconcile \in [Members -> Reconciles]
      /\ team \in [state : States, cycle : 0..MaxCycle, created : BOOLEAN]
  BY DEF DisbandInv, TypeInv, TypeOK
<1>1. ASSUME UNCHANGED reconcile, wire' \subseteq wire
      PROVE  DisbandInv'
  BY <1>1, DisbandsKept
<1>2. ASSUME NEW c \in Cycles, StartSent(c)
      PROVE  DisbandInv'
  <2>1. Start(c).action # "disband"
    BY DEF Start
  <2> QED BY <1>2, <2>1, DisbandsKept DEF StartSent
<1>3. ASSUME NEW c \in Cycles, BossJoined(c)
      PROVE  DisbandInv'
  <2>1. \A m \in Members : Cast(m, c).action # "disband"
    BY DEF Cast
  <2> QED BY <1>3, <2>1, DisbandsKept DEF BossJoined, Pending
<1>4. ASSUME NEW m \in Members, NEW c \in Cycles, BuffCompleted(m, c)
      PROVE  DisbandInv'
  <2> DEFINE own == Complete(completed, {m}, c)
             done == Complete(own, Skipped(own, c), c)
             ends == MayMarkCompleted(m, c) /\ AllDone(done, c)
  <2>1. reconcile' = reconcile
    BY <1>4 DEF BuffCompleted
  <2>2. CASE ~ends
    <3>1. wire' = wire
      BY <1>4, <2>2 DEF BuffCompleted
    <3> QED BY <1>1, <2>1, <3>1
  <2>3. CASE ends
    <3>1. Told(c)'
      BY <1>4, <2>3, <1>a DEF BuffCompleted, MayMarkCompleted, Told
    <3>2. wire' = wire \cup {Disband(c)}
      BY <1>4, <2>3 DEF BuffCompleted
    <3>3. Disband(c).to = Leader /\ Disband(c).cycle = c
      BY DEF Disband
    <3> QED BY <2>1, <3>1, <3>2, <3>3, DisbandsKept
  <2> QED BY <2>2, <2>3
<1>5. ASSUME NEW m \in Members, ReconcileRepeat(m)
      PROVE  DisbandInv'
  <2>1. /\ reconcile[m].pc = "read" /\ reconcile[m].cycle \in Cycles
        /\ reconcile[m].state \in {"inviting", "disbanding"}
    BY <1>5, <1>a, ReconcileCases
    DEF ReconcileRepeat, Reconciles, NoReconcile, States
  <2>2. PICK d \in Cycles : reconcile[m].cycle = d
    BY <2>1
  <2>3. reconcile[m].state = "disbanding" => Told(d)'
    <3>1. reconcile[m].state = "disbanding" => Told(d)
      BY <2>1, <2>2 DEF DisbandInv, DisbandsTold, Told
    <3> QED BY <3>1, ToldStep DEF DisbandInv
  <2>4. /\ Start(d).action # "disband"
        /\ Disband(d).to = Leader /\ Disband(d).cycle = d
    BY DEF Start, Disband
  <2>5. ASSUME NEW x \in wire', x \notin wire, x.action = "disband"
        PROVE  x.to = Leader /\ Told(x.cycle)'
    <3>1. reconcile[m].state = "disbanding" /\ x = Disband(d)
      BY <1>5, <2>1, <2>2, <2>4, <2>5 DEF ReconcileRepeat, Repeated
    <3>2. x.cycle = d
      BY <2>4, <3>1
    <3> QED BY <2>3, <2>4, <3>1, <3>2
  <2>6. \A p \in Members : reconcile'[p] = reconcile[p] \/ reconcile'[p].pc # "read"
    BY <1>5, <1>a DEF ReconcileRepeat, NoReconcile
  <2> QED BY <2>5, <2>6, DisbandsKept
<1>6. ASSUME NEW m \in Members, ReconcileSnapshot(m)
      PROVE  DisbandInv'
  <2>1. \A p \in Members : reconcile'[p] = reconcile[p] \/ reconcile'[p].pc # "read"
    BY <1>6, <1>a DEF ReconcileSnapshot
  <2> QED BY <1>6, <2>1, DisbandsKept DEF ReconcileSnapshot
<1>7. ASSUME NEW m \in Members, ReconcileCommit(m)
      PROVE  DisbandInv'
  <2>1. \A p \in Members : reconcile'[p] = reconcile[p] \/ reconcile'[p].pc # "read"
    BY <1>7, <1>a DEF ReconcileCommit, NoReconcile
  <2>2. PICK d \in Cycles : reconcile[m].cycle = d
    BY <1>7, <1>a, ReconcileCases DEF ReconcileCommit
  <2>3. CASE EndsCasting(reconcile[m])
    <3>1. Told(d)' /\ wire' = wire \cup {Disband(d)}
      BY <1>7, <2>2, <2>3, <1>a DEF ReconcileCommit, EndsCasting, Told
    <3>2. Disband(d).to = Leader /\ Disband(d).cycle = d
      BY DEF Disband
    <3> QED BY <2>1, <3>1, <3>2, DisbandsKept
  <2>4. CASE ~EndsCasting(reconcile[m])
    <3>1. wire' = wire \cup {Cast(p, d) : p \in reconcile[m].pending}
      BY <1>7, <2>2, <2>4 DEF ReconcileCommit
    <3>2. \A p : Cast(p, d).action # "disband"
      BY DEF Cast
    <3> QED BY <2>1, <3>1, <3>2, DisbandsKept
  <2> QED BY <2>3, <2>4
<1>8. ASSUME NEW m \in Members, ConnectionEnds(m)
      PROVE  DisbandInv'
  <2>1. \A p \in Members : reconcile'[p] = reconcile[p] \/ reconcile'[p] = Read
    BY <1>8, <1>a DEF ConnectionEnds
  <2> QED BY <1>8, <2>1, DisbandsKept DEF ConnectionEnds
<1>9. ASSUME NEW m \in Members, NEW runs \in BOOLEAN, ClientState(m, runs)
      PROVE  DisbandInv'
  <2>1. \A p \in Members : reconcile'[p] = reconcile[p] \/ reconcile'[p] = Read
    BY <1>9, <1>a DEF ClientState
  <2>2. Cast(m, team.cycle).action # "disband"
    BY DEF Cast
  <2> QED BY <1>9, <2>1, <2>2, DisbandsKept DEF ClientState
<1>10. ASSUME Restart
       PROVE  DisbandInv'
  BY <1>10, DisbandsKept DEF Restart, NoReconcile
<1>11. ASSUME \/ TeamCreated \/ StartCycle \/ MembersCleared \/ ClearingLost
              \/ UNCHANGED vars
       PROVE  DisbandInv'
  BY <1>1, <1>11 DEF TeamCreated, StartCycle, MembersCleared, ClearingLost, vars
<1>12. ASSUME NEW c \in Cycles,
              StartFailed(c) \/ StartReverted(c) \/ CycleDisbanded(c)
       PROVE  DisbandInv'
  BY <1>1, <1>12 DEF StartFailed, StartReverted, CycleDisbanded
<1>13. ASSUME NEW m \in Members, TeamJoined(m) \/ Connect(m)
       PROVE  DisbandInv'
  BY <1>1, <1>13 DEF TeamJoined, Connect
<1>14. ASSUME NEW m \in Members, NEW a \in Actions, NEW c \in Cycles,
              ReceiptLost(m, a, c)
       PROVE  DisbandInv'
  BY <1>1, <1>14 DEF ReceiptLost
<1>15. ASSUME NEW x \in wire, CommandLost(x) \/ Receive(x)
       PROVE  DisbandInv'
  BY <1>1, <1>15 DEF CommandLost, Receive
<1> QED
  BY <1>2, <1>3, <1>4, <1>5, <1>6, <1>7, <1>8, <1>9, <1>10, <1>11, <1>12, <1>13,
     <1>14, <1>15
  DEF Next, PartyStep, StartStep, SaveRopeTeamBoss, BuffDue, ReceiptStep,
      CommandStep, ReconcileStep, ConnectionStep

\* The leader begins with a command to disband only in a step that receives it.
LEMMA BeginsInTime ==
  ASSUME DisbandInv, [Next]_vars, NEW d \in Cycles,
         job[Leader]["disband"][d] = "none", job'[Leader]["disband"][d] = "working"
  PROVE  team.cycle = d /\ team.state = "disbanding"
<1> USE DEF rows, status, wires, bounds
<1>a. job \in JobType /\ team.cycle \in 0..MaxCycle /\ wire \subseteq Commands
  BY DEF DisbandInv, TypeInv, TypeOK, JobType
<1>1. ASSUME NEW x \in wire, Receive(x)
      PROVE  team.cycle = d /\ team.state = "disbanding"
  <2>1. x \in Commands /\ x.to = Leader /\ x.action = "disband" /\ x.cycle = d
    BY <1>1, <1>a, LeaderBegins
  <2> QED BY <1>1, <2>1 DEF DisbandInv, DisbandsTold, Told
<1>2. ASSUME NEW m \in Members, NEW a \in Actions, NEW c \in Cycles,
             Acknowledge(m, a, c)
      PROVE  FALSE
  BY <1>2, <1>a, AcknowledgeBegins
<1>3. ASSUME job' = job
      PROVE  FALSE
  BY <1>3
<1>4. ASSUME NEW c \in Cycles, BossJoined(c) \/ CycleDisbanded(c)
      PROVE  FALSE
  BY <1>2, <1>3, <1>4, CycleAssumption DEF BossJoined, CycleDisbanded, Actions
<1>5. ASSUME NEW m \in Members, NEW c \in Cycles, BuffCompleted(m, c)
      PROVE  FALSE
  BY <1>2, <1>5 DEF BuffCompleted, Actions
<1>6. ASSUME NEW m \in Members, NEW a \in Actions, NEW c \in Cycles,
             ReceiptLost(m, a, c)
      PROVE  FALSE
  BY <1>2, <1>6 DEF ReceiptLost
<1>7. ASSUME MembersCleared
      PROVE  FALSE
  <2>1. team.cycle \in Cycles
    BY <1>7, <1>a, CycleAssumption
    DEF MembersCleared, DisbandInv, TypeInv, Begun, Cycles
  <2> QED BY <1>2, <1>7, <2>1, CycleAssumption DEF MembersCleared, Actions
<1>8. ASSUME \/ TeamCreated \/ StartCycle \/ ClearingLost \/ Restart \/ UNCHANGED vars
      PROVE  FALSE
  BY <1>3, <1>8 DEF TeamCreated, StartCycle, ClearingLost, Restart, vars
<1>9. ASSUME NEW c \in Cycles, StartSent(c) \/ StartFailed(c) \/ StartReverted(c)
      PROVE  FALSE
  BY <1>3, <1>9 DEF StartSent, StartFailed, StartReverted
<1>10. ASSUME NEW m \in Members,
              \/ TeamJoined(m) \/ Connect(m) \/ ConnectionEnds(m)
              \/ ReconcileRepeat(m) \/ ReconcileSnapshot(m) \/ ReconcileCommit(m)
       PROVE  FALSE
  BY <1>3, <1>10
  DEF TeamJoined, Connect, ConnectionEnds, ReconcileRepeat, ReconcileSnapshot,
      ReconcileCommit
<1>11. ASSUME NEW m \in Members, NEW runs \in BOOLEAN, ClientState(m, runs)
       PROVE  FALSE
  BY <1>3, <1>11 DEF ClientState
<1>12. ASSUME NEW x \in wire, CommandLost(x)
       PROVE  FALSE
  BY <1>3, <1>12 DEF CommandLost
<1> QED
  BY <1>1, <1>4, <1>5, <1>6, <1>7, <1>8, <1>9, <1>10, <1>11, <1>12
  DEF Next, PartyStep, StartStep, SaveRopeTeamBoss, BuffDue, ReceiptStep,
      CommandStep, ReconcileStep, ConnectionStep

\* A command to disband that was repeated, or waits in a channel, makes the
\* leader act only while the team is disbanding that very cycle.
THEOREM CycleDisbandInTime == Spec => DisbandInTime
<1>1. DisbandInv /\ [Next]_vars
        => [\A c \in Cycles :
              job[Leader]["disband"][c] = "none" /\ job'[Leader]["disband"][c] = "working"
                => team.cycle = c /\ team.state = "disbanding"]_vars
  BY BeginsInTime
<1> QED BY <1>1, DisbandInit, DisbandStep, PTL DEF Spec, DisbandInTime

-----------------------------------------------------------------------------
(***************************************************************************)
(* The cycle implements the rounds of BossRound.                           *)
(***************************************************************************)
LEMMA RoundInit == Init => Round!Init
BY DEF Init, Round!Init

\* Every step is a step of a round, or leaves the round alone.
LEMMA RoundStep ==
  OwedInv /\ [Next]_vars => [Round!Next]_<<team.state, team.cycle, owing>>
<1> SUFFICES ASSUME OwedInv, [Next]_vars
             PROVE  \/ Round!Next
                    \/ UNCHANGED <<team.state, team.cycle, owing>>
  OBVIOUS
<1> USE DEF rows, status, wires, bounds
<1>a. /\ team \in [state : States, cycle : 0..MaxCycle, created : BOOLEAN]
      /\ owing \subseteq Members
  BY DEF OwedInv, TypeInv, TypeOK
<1> DEFINE Goal == Round!Next \/ UNCHANGED <<team.state, team.cycle, owing>>
<1>1. ASSUME StartCycle
      PROVE  Goal
  <2>1. /\ team.state = "idle" /\ team'.state = "inviting"
        /\ team'.cycle = team.cycle + 1
    BY <1>1, <1>a DEF StartCycle, MayStart
  <2>2. owing' \in SUBSET Members /\ Leader \in owing'
    BY <1>1, CycleAssumption DEF StartCycle, MayStart
  <2> QED BY <2>1, <2>2 DEF Round!Next, Round!Begin
<1>2. ASSUME NEW c \in Cycles, StartReverted(c)
      PROVE  Goal
  BY <1>2, <1>a DEF StartReverted, Reverts, Round!Next, Round!CallOff
<1>3. ASSUME NEW c \in Cycles, BossJoined(c)
      PROVE  Goal
  BY <1>3, <1>a DEF BossJoined, MayMarkJoined, Round!Next, Round!Arrive
<1>4. ASSUME NEW m \in Members, NEW c \in Cycles, BuffCompleted(m, c)
      PROVE  Goal
  <2>1. owing' \in SUBSET owing
    BY <1>4 DEF BuffCompleted
  <2>2. CASE team' = team
    BY <2>1, <2>2 DEF Round!Next, Round!Settle
  <2>3. CASE team' # team
    <3>1. /\ team.state = "casting" /\ team'.state = "disbanding"
          /\ team'.cycle = team.cycle
      BY <1>4, <2>3, <1>a DEF BuffCompleted, MayMarkCompleted
    <3>2. owing' = {}
      BY <3>1, OwedStep DEF OwedInv, NoEarlyDisband
    <3> QED BY <3>1, <3>2 DEF Round!Next, Round!Disband
  <2> QED BY <2>2, <2>3
<1>5. ASSUME NEW c \in Cycles, CycleDisbanded(c)
      PROVE  Goal
  BY <1>5, <1>a DEF CycleDisbanded, MayEnd, Round!Next, Round!End
<1>6. ASSUME NEW m \in Members, ReconcileCommit(m)
      PROVE  Goal
  <2>1. owing' \in SUBSET owing
    BY <1>6 DEF ReconcileCommit
  <2>2. CASE team' = team
    BY <2>1, <2>2 DEF Round!Next, Round!Settle
  <2>3. CASE team' # team
    <3>1. /\ team.state = "casting" /\ team'.state = "disbanding"
          /\ team'.cycle = team.cycle
      BY <1>6, <2>3, <1>a DEF ReconcileCommit, EndsCasting
    <3>2. owing' = {}
      BY <3>1, OwedStep DEF OwedInv, NoEarlyDisband
    <3> QED BY <3>1, <3>2 DEF Round!Next, Round!Disband
  <2> QED BY <2>2, <2>3
<1>7. ASSUME TeamCreated
      PROVE  Goal
  BY <1>7, <1>a DEF TeamCreated
<1>8. ASSUME team' = team, owing' = owing
      PROVE  Goal
  BY <1>8
<1>9. ASSUME MembersCleared \/ ClearingLost \/ Restart \/ UNCHANGED vars
      PROVE  Goal
  BY <1>8, <1>9 DEF MembersCleared, ClearingLost, Restart, vars
<1>10. ASSUME NEW c \in Cycles, StartSent(c) \/ StartFailed(c)
       PROVE  Goal
  BY <1>8, <1>10 DEF StartSent, StartFailed
<1>11. ASSUME NEW m \in Members,
              \/ TeamJoined(m) \/ Connect(m) \/ ConnectionEnds(m)
              \/ ReconcileRepeat(m) \/ ReconcileSnapshot(m)
       PROVE  Goal
  BY <1>8, <1>11
  DEF TeamJoined, Connect, ConnectionEnds, ReconcileRepeat, ReconcileSnapshot
<1>12. ASSUME NEW m \in Members, NEW runs \in BOOLEAN, ClientState(m, runs)
       PROVE  Goal
  BY <1>8, <1>12 DEF ClientState
<1>13. ASSUME NEW m \in Members, NEW a \in Actions, NEW c \in Cycles,
              ReceiptLost(m, a, c)
       PROVE  Goal
  BY <1>8, <1>13 DEF ReceiptLost
<1>14. ASSUME NEW x \in wire, CommandLost(x) \/ Receive(x)
       PROVE  Goal
  BY <1>8, <1>14 DEF CommandLost, Receive
<1> QED
  BY <1>1, <1>2, <1>3, <1>4, <1>5, <1>6, <1>7, <1>9, <1>10, <1>11, <1>12, <1>13,
     <1>14
  DEF Next, PartyStep, StartStep, SaveRopeTeamBoss, BuffDue, ReceiptStep,
      CommandStep, ReconcileStep, ConnectionStep

\* The rows of a team go through whole rounds: nobody is added to the members a
\* round waits for, the party is disbanded when the last of them is done, and
\* only a round that is inviting is called off.
THEOREM CycleRefinesRound == Spec => RoundRefinement
<1> QED BY RoundInit, RoundStep, OwedInit, OwedStep, PTL
        DEF Spec, RoundRefinement, Round!Spec
=============================================================================
