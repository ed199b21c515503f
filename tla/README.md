# A verification project for monitor-backend

`monitor-backend` is the Go server of a game-monitoring product. Computers
("devices", one *session* per account and computer) keep a WebSocket open and
publish what they see; browsers ("viewers") watch one session; the server
decides which device of an account may run in monitor mode, forwards commands,
coordinates a buff-casting team of devices, sums experience gains and pushes
alerts to a phone. MySQL holds everything that survives a restart; the realtime
state lives in the process.

This directory holds TLA+ modules translated from that code, the TLC
configurations that check them, and theorems proved with TLAPS.

## 1. Inventory

| Component | State | Operations | Talks to |
|---|---|---|---|
| **Hub** `internal/realtime/hub.go` | rooms (publisher, controls channel, latest payloads, `clientState`, `connected`, `online`, viewers), `activeMonitors`, client observers | AttachDevice and its detach closure, Publish, updateMonitorClaim, SendCommand, disconnectDevice, Subscribe, SubscribeClients, notify, Close | device and viewer handlers, notification and expgain services read it |
| **Device handler** `internal/api/server.go` handleDeviceWebSocket | one goroutine per connection, mode permissions read once, the `monitor_sessions` row | read loop, write loop, pings, client_state post-processing, team and buff receipts | Hub, MySQL, boss cycle |
| **Accounts** `internal/api/server.go`, `invite_codes.go`, `admin.go` | `users`, `registration_invite_codes`, client limit, status, permissions | register, login, bind client, authorise client, admin edits | MySQL, Hub (kick) |
| **Client management** `internal/api/clients.go` | `monitor_sessions` rows | list, rename, start/stop commands, revoke | Hub, MySQL |
| **Rope teams** `internal/api/clients.go` | `rope_teams`, `rope_team_members` | save boss, save team, change leader, delete, remove a member, team receipts | Hub (commands), MySQL |
| **Boss buff cycle** `internal/api/boss_cycle.go` | `boss_cycle_state`, `boss_cycle_id`, members' completed cycle | start, leader joined, buff completed, resume, reconcile, skip inactive, kicked | Hub (commands), MySQL, device receipts |
| **Experience gain** `internal/expgain/service.go` | per-session minute buckets, totals, dirty flags | sample tick, ResetTotal, flush, load, prune, daily roll | Hub, MySQL |
| **Notifications** `internal/notification/service.go` | alert rules and states in MySQL | EXP stall, rune, verification and safe-zone scans, settings, test push | Hub, MySQL, Bark HTTP |
| **Protocol** `internal/protocol/messages.go` | none | ValidateEnvelope | device handler |
| **Viewer handler** `internal/api/server.go` | one goroutine per viewer | subscribe, forward, re-pick the session | Hub, MySQL |
| Cloud maps, client versions, config, auth, database, bark, secret box, migrations, main | rows or none | CRUD, JWT and HTTP plumbing | MySQL, HTTP |

### Behaviours that are hard

* Every WebSocket handler is a goroutine; the hub's operations are *several*
  critical sections (h.mu, room.mu, commandMu) with gaps between them.
* A device may connect while the handler of its previous connection is still
  running (a half-open TCP connection is noticed after two lost pings).
* The controls channel is bounded, is replaced at every connect, is drained by
  a disconnect, and carries an in-band `nil` frame that closes the connection.
* The boss cycle lives in MySQL, is advanced by receipts that are repeated,
  delayed and lost, and by commands whose delivery may fail.
* Experience totals are copied, written and marked clean in different critical
  sections; alert rules are read, evaluated and reserved in different
  statements.
* What a request checked in one statement is used in a later one: the invite code
  of a registration, the count of bound computers, the row of a connecting device.
* A viewer looks up the monitor in several reads, subscribes, and sends itself a
  snapshot through a channel of one message that others fill and empty.
* A server restart loses all realtime state and keeps all rows.

The hazards themselves are listed in `PROJECT.json`, each at its line.

### What makes each component correct

* **Hub** - one accepted monitor per account; a reserved slot belongs to a
  device that monitors or is about to give it back; a room is connected exactly
  while its newest handler runs.
* **Controls channel** - nobody sends into a replaced channel; a notice is the
  last thing a device hears, and its connection then ends; no sender or
  disconnect waits for ever.
* **Boss buff cycle** - every member the cycle started with has cast or was found
  away before the boss is kicked; a late command does not disband a later
  party; a cycle ends.
* **Rope teams** - "created" and "joined" say what the game says; a repeated
  receipt counts once; a running cycle keeps its leader and gains no member.
* **Experience gain** - nothing is counted twice; what was counted is saved.
* **Notifications** - one audible alert per event, the interval between repeated
  ones, and silence once switched off.
* **Accounts** - a computer is bound only under the limit; a revoked device does
  not stay connected; an invite code is used once.
* **Device handler** - the rows of an account name one running monitor, and neither
  the rows nor the hub remember a monitor that is none.
* **Viewers** - a viewer ends up at the session that monitors, with its newest
  snapshot.

## 2. Modules

| Module | Models | Kind |
|---|---|---|
| `MonitorSlot` | what the hub promises about monitor mode | abstract specification |
| `Hub` | `hub.go`: rooms, claims, detach | implements `MonitorSlot` |
| `ActiveMonitor` | `hub.go`: the two reads of `ActiveMonitorSession` | composed with `Hub` |
| `Sessions` | `server.go`: the device handler and its row in `monitor_sessions` | composed with `Hub` |
| `Viewers` | `hub.go`, `server.go`: subscribers, observers, the viewer's websocket | composed with `Hub` |
| `CommandQueue` | `hub.go`, `server.go`: the controls channel of a room with its locks | component |
| `BossRound` | what a buff cycle promises | abstract specification |
| `BossCycle` | `boss_cycle.go` and the receipts of `server.go` | implements `BossRound` |
| `RopeTeam` | `clients.go` team requests and the team receipts of `server.go` | component |
| `Accounts` | `server.go`, `invite_codes.go`, `admin.go`, `clients.go`: registration, bound computers, revocation | component |
| `ExpGain` | `expgain/service.go` | component |
| `Alerts` | `notification/service.go`: the verification alert | component |
| `HubProofs`, `ViewersProofs`, `CommandQueueProofs`, `BossCycleProofs`, `RopeTeamProofs`, `AccountsProofs`, `ExpGainProofs`, `AlertsProofs` | theorems about the module they are named after, `HubProofs` about `ActiveMonitor` and `Sessions` as well | proofs |
| `MC*` | constants of the instances TLC checks | instances |

`ActiveMonitor`, `Sessions` and `Viewers` extend `Hub`: the first adds readers, the
others conjoin its actions with what the handlers do around them; the other
components meet at the rows and the receipts, and each takes of its neighbour the steps the neighbour allows.

The names of actions are those of the handlers; where a handler works in several
critical sections or statements, an action is one of them and its name says
which. Definitions introduced by a comment "Mutant:" or "Mutant of" are never
used by a specification: each is a plausible mistake in the definition after it,
and replacing that definition by it must break a named property.

**Hub.** A connection is a value of `Conns`; `pc` says in which gap between
critical sections its handler is. `AttachDevice` is one section (`room.mu`),
`Publish` of a client state is two (`h.mu` in `updateMonitorClaim`, then
`room.mu`), the detach closure two (`room.mu`, then `h.mu`). Other messages do
not touch the modelled state. With `Overlap = TRUE` a device connects while the
handler of its last connection still runs. `OnlineAfter` is the flag that
`Publish` derives from the state it stores; `AttachDevice` derives it from the
state the room still has.

**ActiveMonitor.** A call is two steps, the slot under `h.mu` (`ReadSlot`) and the
room of the session it found under `room.mu` (`ReadRoom`), with any step of any
handler between them; `Result` is what it returns.

**Sessions.** After `Publish` has decided, an accepted monitor clears the rows of
the account's other devices and then records its own; a rejected device records
monitor mode, not running. These statements are `ClearOthers` and `Record`; both
may fail, and their errors are ignored. `ResetRow` is what a revocation or a bind
does to a row. A `Restart` empties the hub and keeps the rows. `disturbed` and
`heard` are history: two handlers of one device overlapped or a statement failed,
and what `Publish` made of this connection's client states: nothing yet, only
rejections, or it stored one. The mode permissions, read
once at connect, can only turn a running state into a stopped one, so every
state they produce is among the inputs.

**Viewers.** A device handler that changed a room takes a snapshot, broadcasts it
and notifies the observers, each without the lock of the step before
(`news`, `taken`). A page resolves its session in three reads, registers, takes
its own snapshot and sends it to itself, registers as observer and gives itself a
token. A snapshot is the number of the state it shows; `Data` is any other
message. `missed` says that another message displaced a snapshot from the channel
of one, or that the snapshot a waiting `Subscribe` brings took the place of another.
Without `Overlap` a device connects again only when its last handler has returned, its last notification included
(`SessionTold`).

**CommandQueue.** The variables are the channel of each handler, the two mutexes
with their holders, and a program counter per goroutine. `SendCommand` waits at
a full channel with `commandMu` and a read lock held, for two seconds at most.
`disconnectDevice` is its loop in the steps the Go runtime can separate: the test
of the length, the receive, the notice, the nil frame. The handler's select
receives a frame, a message of its device (which may make it send a command to
itself), or the end of the connection.

**BossCycle.** `team`, `joined` and `completed` are rows; `connected` and
`running` are the hub; `wire` holds the commands that are queued or about to be.
A transaction that locks the team row is one action; what follows the commit
(sending, reverting, acknowledging) is separate. `reconcileBossBuffCycle` is
three actions: its unlocked read, the snapshot of its transaction, and the
commit, whose updates see the rows as they are by then. The client is external:
it works on a command of a cycle once and repeats its receipt until acknowledged.
Faults are a command that is not queued (`MayFail`), a lost connection, a stop or
a restart (`MayDrop`), and a transaction that fails (`MayLose`).

**RopeTeam.** The requests of the owner and the receipts that concern the party;
a buff cycle is only the state `busy` here, with the steps BossCycle allows
(`CycleStarts`, `CycleReverted`, `CycleEnds`), and `CycleKeepsTeam` is what
BossCycle takes for granted: as long as the team exists its leader stays and nobody
is added. Members may be removed from a running cycle, and the team deleted. `applied`
counts how often a join receipt changed the marks.

**Accounts.** A registration looks at its code, hashes, locks the code in a
transaction, and commits. `ensureDeviceSession` locks the account, reads the row
and the count from one snapshot, and inserts, revives or refuses. The handler of
a connection attaches later; a revocation writes the row without that lock and
disconnects later. `told` are the handlers that were sent a notice, `raced` those
whose computer was revoked between their check and their attachment.

**ExpGain.** `state` is the `userState` in memory, `row` the database. A tick
takes the lock (`TickBegins`), reads one session after the other (`Sample`) while
the readings in the hub go on, and lets go (`TickEnds`); whoever copies, resets or
marks clean waits for it (`Unlocked`). `pc` and `copy` separate the three parts of
a flush: copy under the lock, transaction, clearing of the dirty flag under the
lock again. The ticker and requests to reset run concurrently; a restart loses
`state` and loads `row`.

**Alerts.** One scan at a time (`startScheduledScan`): query, a look at the hub,
a second look, reservation and push, or the reset of the cycle. Requests of the
owner, reports and lost connections come between any two of them. The reservation
of an alert and the start of its push (service.go:835-851) are one step, and the time
of an alert is that of its reservation: a stop between the two, which loses the
one alert that sounds, is not modelled.

## 3. Runs

| Run | Question | Bounds, and why they are enough |
|---|---|---|
| `hub` | Is there one accepted monitor per account, is every reservation justified and given back? | 2 accounts, 3 devices (two of them on one account), one handler each, and one reader of the first account's slot: two competitors and an unrelated account. Handlers are used again and nothing counts, so histories of every length are covered |
| `hub_overlap_claim` | Is the slot still exclusive when handlers of a device overlap? **No** | 1 account, 2 devices, 3 handlers of which two serve the same device |
| `sessions` | Do the rows and the rooms follow what the hub decided, and the newest connection? | The same devices and handlers, overlap, failing statements, revocations, restarts; nothing counts |
| `viewers` | Does a page end up at the monitor, with its newest state? | 1 account, 2 devices, 1 page, 4 states per room: connect, monitor, stop or leave, and one more. Checked once with 5 |
| `command_queue` | Do locks, replacement and the closing frame fit together; do sends return and disconnects close? | 2 overlapping handlers, each answering its device, 1 sender, 1 disconnect, channel of 2: full, drained and replaced all occur; a notice and a nil frame just fit |
| `drain_race` | Does `disconnectDevice` return? **No** | 1 handler, 1 sender, 1 disconnect |
| `boss_cycle` | Is the round kept under faults, and does the cycle end? | leader and member, 1 cycle, one fault of any kind at any moment (`MaxTrouble`). Checked once with all three kinds in one behaviour, and once with two cycles |
| `receipt_lost` | Does it end when a transaction fails? **No** | one failed transaction, no other fault |
| `exp_gain` | Is experience counted once and saved? | 2 sessions, 1 reset, one unit of experience, one new day, one restart, one failed transaction |
| `rope_team` | Are the marks of a team true? | 2 clients, 2 teams, 1 join receipt each, 1 handler between its statements. Checked once as well with one team and three clients |
| `accounts` | Is a code used once, a limit kept, a revoked computer told? | 2 registrations with one code; 2 computers of one account, limits 1 and 2, one computer with two connections and a bind |
| `alerts` | Are alerts spaced, audible once, and silent when off? | 2 sessions, interval 2 s (the code's), freshness 1 s (12 s in the code, beyond the bound), 3 s: an alert, its repetition, a stale report and the end of a cycle all fit |

What the passing runs show:

* `hub`: `SingleMonitor`, `ClaimBacked`, `RejectionJustified`, and that `Hub`
  implements `MonitorSlot`, its liveness included (a device that left gives its slot
  back). `ActiveMonitorSession` returns the accepted device as long as the slot it
  read is still the account's when it returns (`AnswerExact`); see the weaknesses
  for the other case.
* `sessions`: with overlapping handlers a room follows its newest connection
  (`PublisherIsLive`, `OnlyPublisherDisconnects`). One row of an account at most is
  a running monitor (`OneMonitorRow`). A device that is not accepted is no running
  monitor in its row once it was heard, and its room is not online once it stored a
  state (`NoGhostMonitor`). Both hold unless the account is disturbed: then the
  finding `hub_overlap_claim`, or a statement that failed, breaks them.
* `viewers`: once handlers and page are done, the page watches the active monitor
  (`FollowsMonitor`) and has seen its newest state, unless a snapshot was
  displaced (`SeesRoom`).
* `command_queue`: nobody works on a replaced channel (`HeldChannelIsCurrent`);
  the device hears nothing after the notice, and the nil frame only behind it, as
  long as one disconnect at most addresses the handler (`NoticeIsLast`);
  `DisconnectCloses` and `SendReturns`, unless a disconnect is stuck as in
  `drain_race`.
* `boss_cycle`: the rows go through the rounds of `BossRound`
  (`RoundRefinement`), the boss is kicked only when nobody owes a buff
  (`NoEarlyDisband`), a late command disbands no party (`DisbandInTime`), and the
  cycle ends unless a transaction failed (`CycleEnds`).
* `exp_gain`: `NeverOvercounted`, an upper bound: that nothing is lost is not
  claimed, and a reading that recovers from a misread has risen, and counts;
  `CleanIsSaved` unless the totals changed while
  they were being saved.
* `rope_team`: "created" and "joined" are backed by what the team's own clients
  were told (`MarksEarned`), a receipt counts once (`MarkedOnce`), a running cycle
  keeps its leader and gains no member (`CycleKeepsTeam`).
* `accounts`: `InviteOnce`, "每个邀请码只能成功注册一次" (README.md:63-65 of the
  repository); a computer is bound only under the limit in force (`WithinLimit`);
  a revoked computer that is connected was told or raced (`RevokedLeaves`).
* `alerts`: `Spaced`, `SoundOnce`, `OneLateAlert`.

Every property of a passing run is broken by a mutant of the code (`PROJECT.json`).
`CHECK_DEADLOCK FALSE` is set where the bounds, or a goroutine that is done, let
an instance stop. The largest instance, `exp_gain`, has about five million
states; each run ends within three minutes on two workers.

### Findings

1. *`hub_overlap_claim`.* `activeMonitors` names a session, not a connection. A
   device whose first connection is half open connects again and monitors, and the
   first handler then gives away its reservation, so that a second device is
   accepted. It does so with a last `client_state` (hub.go:172-174), or with its
   detach, if the room section of the detach ran before the newer connection attached
   and the release of the slot (hub.go:92-97) runs after that one was accepted. A
   detach that begins once the newer connection is the publisher frees nothing
   (hub.go:83).
2. *`drain_race`.* `disconnectDevice` tests the length of the channel and then
   receives from it. The handler, which takes no lock, may take the last frame in
   between: the receive never returns and `room.mu` stays locked.
3. *`receipt_lost`.* A receipt is acknowledged although its transaction failed.
   The client stops repeating it, and the team stays in its state for ever.

### Another divergence, without a run

The repository's README.md:116-117 says of the totals
"累计与近 1 小时采样每 15 秒落库，进程退出前也会再刷一次" (saved every 15 seconds, and once more before the process exits). The service does
flush when its context ends, but in its own goroutine, and `main` cancels the
context and returns without waiting for it (cmd/server/main.go:82-89): the process
may end before or in the middle of that flush. In `ExpGain` a `Restart` may come
at any moment, with totals that are dirty; `CleanIsSaved` says what is saved, and
nothing says that everything is.

### Weaknesses seen, with no claim in the repository to hold against them

Rooms, commands and viewers:

* `AttachDevice` derives `online` from the client state of the last connection
  without asking `activeMonitors`, so a room may be online beside the active
  monitor of the account until a client state of its device is stored. A device that
  only reports what is rejected stays online all the while: `Publish` returns before
  it touches the room (hub.go:110-111; `heard` in `NoGhostMonitor`).
* `ActiveMonitorSession` releases the slot before it reads the room. When the slot
  moves in between it may name a device, as active, that nobody accepted: one that
  is about to store its stop, or that left, freed the slot and connected again
  (hub.go:72). The page that asked is notified of every such change and asks again
  (`FollowsMonitor`).
* With overlapping handlers `ClaimBacked` and `RejectionJustified` fail as well: a
  replaced connection still publishes, its detach is skipped (hub.go:83), and a
  device may be rejected because of what it reserved and nobody will give back.
* A second disconnect drains the notice or the nil frame of the first: the handler
  ends without the first notice, or is sent both (`OneDisconnect`).
* `SubscribeClients` registers an observer and then fills its channel of one
  itself. When a notification is faster, the subscriber, who is the only reader,
  waits for ever (`FirstToken` in `Viewers`).
* A map or a frame displaces an unread snapshot, and a `Subscribe` that waits with
  its own snapshot delivers it after newer ones: the page then shows an old
  state until the next one (`missed` in `SeesRoom`). Overlapping handlers of a
  device may broadcast their snapshots in the wrong order as well.

Accounts:

* The row of a device is checked before its WebSocket is accepted and attached
  later. A revocation in between disconnects nobody, and the device stays
  connected until it leaves (`raced` in `RevokedLeaves`).
* Disabling an account, or taking a mode from it, disconnects none of its devices
  (admin.go:309-339).

Teams:

* A reconciliation that read an earlier cycle may overwrite the mark by which a
  new cycle skips a member that was offline when it began; the member is then
  waited for, or skipped by a later reconciliation.
* After a restart between the two statements that end a cycle, `joined` keeps the
  values of the party that is gone.
* A leader who is no member of the team: a save that changes the leader, between
  the check and the delete of a request to remove that member (`Save`,
  `RemoveRead`, `SaveLeader`, `RemoveRow` in `RopeTeam`). Removing the leader is
  forbidden (clients.go:669-672), and nobody can create the party afterwards.
* `configureSavedRopeTeam` and the update of `team_disbanded` set the state to
  idle without asking for it; a late `team_disbanded` can delete a team that its
  sender leads again, or configure one whose old leader has not left.

Experience and alerts:

* A sample or a reset between the copy of a flush and the clearing of the dirty
  flag is not saved by the next flush (it is by the next change); the proviso
  `~raced` of `CleanIsSaved` excludes exactly that. An older copy may commit
  after a reset and bring the total back on disk.
* An owner who switches the alert on again while a scan is pushing a repetition
  hears nothing of the first alert of the new cycle (`SoundOnce` asks for the first
  after the event was over only).

## 4. Fairness

* `Hub`: weak fairness for a handler between two critical sections, which hold
  their locks for bounded time. No device is assumed to connect, to report, to
  stop or to go away. The one exception to bounded time is the finding
  `drain_race`: a stuck disconnect keeps `room.mu`, and the next
  `updateMonitorClaim` for that room waits for it (hub.go:161) while it holds `h.mu`,
  so the whole hub stops. `SlotFreedRefinement` holds where that has not happened.
* `CommandQueue`: weak fairness for the steps of goroutines; strong fairness for
  taking a contended mutex, which Go does not let a waiter starve at, and, in one
  condition for each handler, for its attachment, its receive and its detach: it
  waits for the lock in the first and the last, and its `select` chooses at random
  among what is ready. Nothing makes a device connect, send or break.
* `BossCycle`: weak fairness for what follows a commit and for a reconciliation;
  strong fairness for receipts, which are repeated and reached between other
  messages. The leader's device is assumed to connect again and run, and a running
  client to finish its work; others may stay away for ever.

The other modules are checked for safety only. `FollowsMonitor` and `SeesRoom`
say what must hold once nothing is left to do, and so need no fairness.

## 5. Proofs

TLAPS checks the following for every value of the constants that satisfies the
named `ASSUME` of the module; TLC evaluates these assumptions in every run. Each
inductive invariant was checked by TLC on the instances above before it was
proved.

**HubProofs**, in two parts. With overlapping handlers: types (`HubTypeOK`),
`RoomOwnership` (connected says exactly that the publisher is a running handler)
and `DetachIsOwn` (nobody else's detach disconnects a room). Without overlap, the
assumption that the run `hub_overlap_claim` shows to be needed: `MonitorMutex`,
`NoOrphanClaim`, `RejectionsJustified`, `HubRefinesSlot`, and, for `ActiveMonitor`,
`ActiveMonitorCorrect`. Mutual exclusion alone is not inductive: it says nothing of the
slot. `HubInv` adds that an accepted handler owns the slot
(`AcceptedHoldsSlot`), that it is the publisher, that the verdict of the first
section matches the payload stored by the second, and that a reserved slot is
backed by a handler that will give it back. `ActiveMonitorCorrect` needs of a call
between its sections only whose session it has read (`ReaderInv`): a session that
still owns the slot, and whose room is connected, was accepted, as a handler that is
leaving has cleared its room (`ConnectedOwner`).

Its second half is about `Sessions` (`OneRowMonitors`, `GhostsAreGone`,
`SessionRowsTypeOK`). The invariants of the hub hold here for every account that is `Calm`, whatever
happens in another: `CalmApart` (one handler per device) and `CalmHoldsSlot` (who
is accepted has the slot). `TaskOfPublish` ties what a handler has still to write
to the verdict of `Publish`. One row at most monitors because of `OthersClear`: a
monitor that is about to write its own row finds the others clear, and no one
else can set one as the slot is taken. `HeardIsTold` is the ghost property for
the steps in between: for the row from the first client state on, for the room from
the first that is stored.

**CommandQueueProofs** (`QueueTypeOK`, `HeldIsCurrent`, `NoticeLast`), for any number
of goroutines and any capacity from two. `LockInv` is the discipline of `room.mu`:
a disconnect that is inside holds it alone, so nobody sends into the channel it
drains, and nobody replaces it. `EmptyInv` says that the channel is empty when
the loop has ended, as only the handler touches it then. `ContentInv` says what
the channel of a running handler holds: commands only (`Plain`), the notice
(`Noticed`), or the notice and the nil frame before anything that was sent later
(`Closing`). Two more theorems are about waiting. `LocksAreReleased`: while
`commandMu` or `room.mu` is held, somebody who holds one can take his next step,
unless a disconnect is stuck in its drain loop; it needs that the holder of
`commandMu` is where the code holds it (`CommandInv`) and that the nil frame fits
behind the notice (`NilFits`). `StuckForEver`: a stuck disconnect stays so whatever
anybody does, so the finding `drain_race` has no way out.

**BossCycleProofs.** `CycleTypeOK`, `CycleNoEarlyDisband`, `CycleDisbandInTime`,
`CycleRefinesRound`, for any team and any number of cycles and faults. The types
need that a team that is not idle has a cycle (`Begun`). `NoEarlyDisband` is not
inductive because of the reconciliation, which decides on an old snapshot:
`OwedInv` adds that a member still owed has not completed the cycle
(`OwesThis`), that a snapshot of the present cycle covers everyone who is owed
when it commits (`SnapshotCovers`), and that what was read is not of a later cycle
(`ReadsPast`). For `DisbandInTime`, `DisbandsTold` says that every command to
disband, sent or about to be repeated, is of a cycle that is disbanding now or
that the leader has begun to disband before; `ToldStep` says that this never
lapses.

**RopeTeamProofs** (`TeamTypeOK`, `TeamMarksEarned`, `TeamMarkedOnce`,
`TeamCycleKeeps`). Every request and receipt is first reduced to what it does to
the row of the team (`Effect`): it goes, it is saved anew with its marks cleared
(`Resaved`), or it keeps its members and gains a mark the receipt earned
(`Kept`). `RecordedIsApplied` ties the receipts on record to how often each was
applied.

**AccountsProofs** (`AccountsTypeOK`, `InviteUsedOnce`, `ClientLimitKept`,
`RevokedAreTold`). Three independent arguments: only the holder of the lock spends
a code, and nobody has spent one that is open (`CodeLockInv`, `SpentInv`); the
holder of an account's lock has counted at least the computers that are bound now,
as nobody else binds and a revocation only takes away (`CountInv`); the publisher
of a room serves (`PublisherServes`) and has been checked since its computer was
last revoked, or has raced (`CheckedOrRaced`).

**AlertsProofs** (`AlertsTypeOK`, `AlertsSpaced`, `AlertsSoundOnce`,
`AlertsOneLate`). The properties speak of the history of a cycle; the invariant
says what the row of the rule and a scan in progress know of it (`RuleKnows`,
`ScanKnows`), also after the owner has changed the rule under the scan, that a
scan about to push found the alert due (`WasDue`), and that nothing made sound
before the first alert of a cycle (`SilentBefore`).

**ExpGainProofs** (`GainTypeOK`, `NeverCountedTwice`, `CleanSaved`). That nothing
is counted twice is a statement about the sum of what the sessions gained, and
sums would need induction over data. It is proved without them: the units of
experience gained are the numbers `1..risen`, and `Covered` says that every unit
can be given to the total or to one session that has still to be sampled, and to
two of them never (`Apart`), so that the total and each session's gap between
baseline and reading have units enough (`Covers`). The state in memory, the row
and every copy are covered, each with an attribution of its own: that is why a
restart, which takes an old row and the baseline of one session, counts nothing
twice. `SavedInv` is the argument for `CleanIsSaved`: as long as nothing raced,
every copy between copying and the end of the saving is still true, and a state
that is clean or about to be is saved.

**ViewersProofs** (`ViewersTypes`, `PageFollowsMonitor`, `PageSeesRoom`). Both
arguments are about what is still to come. A page may be behind only as long as a
token waits or a handler of the account has still to notify (`Pending`); what it
has looked up since is the monitor (`Follows`), because every change of the
account's monitor puts a handler on its way to notify before the change can be
seen (`OtherAccount`, `HandlerQuiet`). `Shape` and `SlotOfOwner` say where a page
is registered, and whose session a slot names. This holds with overlapping
handlers. `PageSeesRoom` assumes `Overlap = FALSE`: then one handler of a session
at most runs or tells (`HandlersApart`), so what it broadcasts is the newest
state (`NewsAreNew`), and a page that missed nothing has it, or it is coming
(`Sees`).

### What stays with TLC

Every safety property of a passing run is stated by a theorem. The liveness
properties are model-checked only (`SlotFreedRefinement`, `DisconnectCloses`,
`SendReturns`, `CycleEnds`): they rest on fairness, and so on ENABLED, which is out
of reach of these provers; `LocksAreReleased` is the part of the second and third
that needs none. The three runs that expect a violation are
counterexamples, and there is nothing to prove about them.

## 6. Not modelled

Protocol validation, authentication, encryption and the Bark request have no
state of the server. Cloud maps and client versions are single statements whose
order nothing depends on. Configuration, migrations and `main` only set the rest
up. Role names, invitation marks, wording and layout decide nothing that a
property is about. The rune alert repeats the verification alert with other
times.

Left out although they have a state:

* the alert on stalled experience, which counts its repetitions in a row of its
  own that a change of the threshold deletes in a second statement, and the alert
  on leaving the safe zone;
* the client management page, another observer of the hub: like the viewers' page
  without a room;
* the samples of the last hour in the experience service, which are saved and
  loaded with the row and feed the sums over a window, not the totals;
* login, password changes and `Hub.Close`, which end or begin sessions that the
  modules begin and end at any moment.

## 7. Plan

Done: monitor slot, controls channel, buff cycle, experience, teams, alerts, device
rows, viewers and accounts, each with proofs of its types and safety properties.
Left: `StallAlert`, the count of the stalled experience alert against a change of
its threshold, next to `Alerts`.
