------------------------------- MODULE Viewers -------------------------------
(***************************************************************************)
(* Who looks at a device (Subscribe, SubscribeClients, broadcast and       *)
(* notifyClientObservers of internal/realtime/hub.go, the viewer's         *)
(* websocket of internal/api/server.go).  A viewer has a channel of one    *)
(* message in the room it watches, and a channel of one token that tells   *)
(* it to look up the account's monitor again.  A device handler stores the *)
(* state of a room under its lock, and then, one after the other and       *)
(* without that lock, takes a snapshot, broadcasts it, and notifies.       *)
(*                                                                         *)
(* The hub's steps are the actions of module Hub.  Of a snapshot the model *)
(* keeps the number of the state it shows; of any other message, that it   *)
(* is none.                                                                *)
(***************************************************************************)
EXTENDS Hub, Naturals

CONSTANTS
  Watchers,   \* viewer websockets
  AccountOf,  \* [Watchers -> Users], the account that looks
  MaxVersion  \* bound on the states stored in one room

ASSUME ViewersAssumption ==
  /\ AccountOf \in [Watchers -> Users]
  /\ MaxVersion \in Nat \ {0}

VARIABLES
  version,    \* the number of states stored in each room
  news,       \* what a device handler has still to do for the viewers
  taken,      \* the snapshot a device handler is about to broadcast
  vpc,        \* where each viewer's handler is
  watching,   \* the room the viewer is registered in
  next,       \* what the viewer's handler has looked up
  snapshot,   \* the snapshot that Subscribe is about to send
  mailbox,    \* the viewer's channel of messages
  token,      \* the viewer's channel of notifications is full
  observing,  \* the viewer is registered for notifications
  seen,       \* history: the snapshot of this room the viewer got last
  missed      \* history: a snapshot was lost on its way to the viewer

deviceVars == <<version, news, taken>>
watcherVars == <<vpc, watching, next, snapshot, mailbox, token, observing, seen, missed>>
viewerVars == <<vars, deviceVars, watcherVars>>

Versions == 1..MaxVersion
None == 0             \* no snapshot

\* The content of a channel: nothing, a message without the state of the room
\* (a map, a frame, a status), a snapshot.
Empty == <<>>
Data == <<None>>
Snapshot(n) == <<n>>

Steps == {"out", "slot", "room", "register", "snapshot", "send", "observe", "token", "loop"}

ViewersInit ==
  /\ Init
  /\ version = [s \in Sessions |-> 1]
  /\ news = [c \in Conns |-> "none"]
  /\ taken = [c \in Conns |-> None]
  /\ vpc = [v \in Watchers |-> "out"]
  /\ watching = [v \in Watchers |-> NoSession]
  /\ next = [v \in Watchers |-> NoSession]
  /\ snapshot = [v \in Watchers |-> None]
  /\ mailbox = [v \in Watchers |-> Empty]
  /\ token = [v \in Watchers |-> FALSE]
  /\ observing = [v \in Watchers |-> FALSE]
  /\ seen = [v \in Watchers |-> None]
  /\ missed = [v \in Watchers |-> FALSE]

-----------------------------------------------------------------------------
(***************************************************************************)
(* The device handlers.                                                    *)
(***************************************************************************)
\* The handler stored a state of its room and has to tell the viewers.
Stored(c) ==
  /\ version[SessionOf[c]] < MaxVersion
  /\ version' = [version EXCEPT ![SessionOf[c]] = @ + 1]

Tell(c) ==
  /\ news' = [news EXCEPT ![c] = "snapshot"]
  /\ UNCHANGED <<taken, watcherVars>>

\* The handlers of c's session have told the viewers all they had to.
SessionTold(c) ==
  \A d \in Conns : SessionOf[d] = SessionOf[c] => news[d] = "none"

Connect(c) ==
  /\ news[c] = "none"
  /\ Overlap \/ SessionTold(c)
  /\ AttachDevice(c) /\ Stored(c) /\ Tell(c)

ClientState(c, state) ==
  /\ news[c] = "none"
  /\ PublishClaim(c, state) \/ PublishRejected(c, state)
  /\ UNCHANGED <<deviceVars, watcherVars>>

Accepted(c) ==
  /\ PublishState(c) /\ Stored(c) /\ Tell(c)

Rejected(c) ==
  /\ StopRejected(c)
  /\ UNCHANGED <<deviceVars, watcherVars>>

\* The detach closure tells the viewers last, also when it left the room alone.
Leave(c) ==
  /\ news[c] = "none"
  /\ DetachRoom(c)
  /\ IF OwnRoom(c)
     THEN Stored(c) /\ UNCHANGED <<news, taken, watcherVars>>
     ELSE Tell(c) /\ UNCHANGED version

Released(c) ==
  /\ DetachClaim(c) /\ Tell(c)
  /\ UNCHANGED version

\* broadcastSnapshot: the room is read under its lock, ...
TakeSnapshot(c) ==
  /\ news[c] = "snapshot"
  /\ taken' = [taken EXCEPT ![c] = version[SessionOf[c]]]
  /\ news' = [news EXCEPT ![c] = "broadcast"]
  /\ UNCHANGED <<vars, version, watcherVars>>

\* The viewers that Subscribe registered in the room of a session.
ViewersOf(s) == {v \in Watchers : watching[v] = s}

\* Mutant of the delivery below: a full channel keeps its message.
KeepOld(v, message, inFront) == IF mailbox[v] = Empty THEN message ELSE mailbox[v]

\* broadcast to one viewer: an unread message is taken out first.  Then a
\* Subscribe that waits to send its snapshot may be in front.
Delivered(v, message, inFront) ==
  IF mailbox[v] # Empty /\ inFront THEN Snapshot(snapshot[v]) ELSE message

\* Broadcast of a message to the viewers of a room, where the viewers of front
\* are waiting in Subscribe and get their own snapshot through.
Broadcast(s, message, front) ==
  LET reached == ViewersOf(s) IN
  /\ front \subseteq {v \in reached : vpc[v] = "send" /\ mailbox[v] # Empty}
  /\ mailbox' = [v \in Watchers |->
       IF v \in reached THEN Delivered(v, message, v \in front) ELSE mailbox[v]]
  /\ missed' = [v \in Watchers |->
       IF v \notin reached THEN missed[v]
       ELSE IF message # Data THEN v \in front /\ message # Snapshot(snapshot[v])
       ELSE missed[v] \/ mailbox[v] \notin {Empty, Data}]
  /\ vpc' = [v \in Watchers |->
       IF v \notin front THEN vpc[v]
       ELSE IF observing[v] THEN "loop" ELSE "observe"]
  /\ snapshot' = [v \in Watchers |-> IF v \in front THEN None ELSE snapshot[v]]
  /\ UNCHANGED <<watching, next, token, observing, seen>>

\* ... and sent under another lock.
BroadcastSnapshot(c) ==
  /\ news[c] = "broadcast"
  /\ \E front \in SUBSET Watchers :
       Broadcast(SessionOf[c], Snapshot(taken[c]), front)
  /\ taken' = [taken EXCEPT ![c] = None]
  /\ news' = [news EXCEPT ![c] = "notify"]
  /\ UNCHANGED <<vars, version>>

\* Publish of anything else, by the device or by PublishGain: it is broadcast as
\* it came.
PublishData(s) ==
  /\ \E front \in SUBSET Watchers : Broadcast(s, Data, front)
  /\ UNCHANGED <<vars, deviceVars>>

\* Mutant of the set below: only viewers that wait for a token get one.
WaitingObservers(u) == {v \in Watchers : observing[v] /\ AccountOf[v] = u /\ vpc[v] = "loop"}

Observers(u) == {v \in Watchers : observing[v] /\ AccountOf[v] = u}

\* notifyClientObservers: a token for every observer of the account that has
\* none.
Notify(c) ==
  /\ news[c] = "notify"
  /\ token' = [v \in Watchers |-> token[v] \/ v \in Observers(UserOf(c))]
  /\ news' = [news EXCEPT ![c] = "none"]
  /\ UNCHANGED <<vars, version, taken, vpc, watching, next, snapshot, mailbox,
                 observing, seen, missed>>

-----------------------------------------------------------------------------
(***************************************************************************)
(* The viewer's handler.                                                   *)
(***************************************************************************)
\* A viewer opens the page, or takes a token: it looks up the session to watch.
LookUp(v) ==
  /\ \/ vpc[v] = "out" /\ UNCHANGED token
     \/ vpc[v] = "loop" /\ token[v] /\ token' = [token EXCEPT ![v] = FALSE]
  /\ vpc' = [vpc EXCEPT ![v] = "slot"]
  /\ UNCHANGED <<vars, deviceVars, watching, next, snapshot, mailbox,
                 observing, seen, missed>>

\* ActiveMonitorSession reads the slot of the account, ...
ReadSlot(v) ==
  /\ vpc[v] = "slot"
  /\ next' = [next EXCEPT ![v] = activeMonitors[AccountOf[v]]]
  /\ vpc' = [vpc EXCEPT ![v] = "room"]
  /\ UNCHANGED <<vars, deviceVars, watching, snapshot, mailbox, token,
                 observing, seen, missed>>

\* ... and then the room.  viewerSession falls back on the session that the
\* database names, which may be any of the account, or on an error: the
\* page is refused, or stays where it is.
ReadRoom(v) ==
  LET active == next[v] # NoSession /\ connected[next[v]] /\ online[next[v]] IN
  /\ vpc[v] = "room"
  /\ \E s \in IF active THEN {next[v]}
              ELSE {watching[v]} \cup {t \in Sessions : OwnerOf[t] = AccountOf[v]} :
       /\ next' = [next EXCEPT ![v] = IF s = watching[v] THEN NoSession ELSE s]
       /\ vpc' = [vpc EXCEPT ![v] =
                    IF s # watching[v] THEN "register"
                    ELSE IF s = NoSession THEN "out" ELSE "loop"]
  /\ UNCHANGED <<vars, deviceVars, watching, snapshot, mailbox, token,
                 observing, seen, missed>>

\* The viewer leaves its room, if it has one, and Subscribe registers it in the
\* other with a new channel.
Register(v) ==
  /\ vpc[v] = "register"
  /\ watching' = [watching EXCEPT ![v] = next[v]]
  /\ next' = [next EXCEPT ![v] = NoSession]
  /\ mailbox' = [mailbox EXCEPT ![v] = Empty]
  /\ seen' = [seen EXCEPT ![v] = None]
  /\ missed' = [missed EXCEPT ![v] = FALSE]
  /\ vpc' = [vpc EXCEPT ![v] = "snapshot"]
  /\ UNCHANGED <<vars, deviceVars, snapshot, token, observing>>

\* Subscribe reads the room after it has registered the viewer.
ReadSnapshot(v) ==
  /\ vpc[v] = "snapshot"
  /\ snapshot' = [snapshot EXCEPT ![v] = version[watching[v]]]
  /\ vpc' = [vpc EXCEPT ![v] = "send"]
  /\ UNCHANGED <<vars, deviceVars, watching, next, mailbox, token, observing,
                 seen, missed>>

\* Subscribe sends it when the channel has room, and returns.
SendSnapshot(v) ==
  /\ vpc[v] = "send"
  /\ mailbox[v] = Empty
  /\ mailbox' = [mailbox EXCEPT ![v] = Snapshot(snapshot[v])]
  /\ snapshot' = [snapshot EXCEPT ![v] = None]
  /\ vpc' = [vpc EXCEPT ![v] = IF observing[v] THEN "loop" ELSE "observe"]
  /\ UNCHANGED <<vars, deviceVars, watching, next, token, observing, seen, missed>>

\* SubscribeClients registers the viewer, ...
Observe(v) ==
  /\ vpc[v] = "observe"
  /\ observing' = [observing EXCEPT ![v] = TRUE]
  /\ vpc' = [vpc EXCEPT ![v] = "token"]
  /\ UNCHANGED <<vars, deviceVars, watching, next, snapshot, mailbox, token,
                 seen, missed>>

\* ... and sends the first token itself, which waits for ever when a
\* notification was faster.
FirstToken(v) ==
  /\ vpc[v] = "token"
  /\ ~token[v]
  /\ token' = [token EXCEPT ![v] = TRUE]
  /\ vpc' = [vpc EXCEPT ![v] = "loop"]
  /\ UNCHANGED <<vars, deviceVars, watching, next, snapshot, mailbox,
                 observing, seen, missed>>

\* The next message is written to the page.
Forward(v) ==
  /\ vpc[v] = "loop"
  /\ mailbox[v] # Empty
  /\ seen' = [seen EXCEPT ![v] = IF mailbox[v] = Data THEN @ ELSE mailbox[v][1]]
  /\ mailbox' = [mailbox EXCEPT ![v] = Empty]
  /\ UNCHANGED <<vars, deviceVars, vpc, watching, next, snapshot, token,
                 observing, missed>>

\* The page is closed: both channels are removed and closed.
Close(v) ==
  /\ vpc[v] = "loop"
  /\ vpc' = [vpc EXCEPT ![v] = "out"]
  /\ watching' = [watching EXCEPT ![v] = NoSession]
  /\ mailbox' = [mailbox EXCEPT ![v] = Empty]
  /\ token' = [token EXCEPT ![v] = FALSE]
  /\ observing' = [observing EXCEPT ![v] = FALSE]
  /\ seen' = [seen EXCEPT ![v] = None]
  /\ missed' = [missed EXCEPT ![v] = FALSE]
  /\ UNCHANGED <<vars, deviceVars, next, snapshot>>

-----------------------------------------------------------------------------
Device(c) ==
  \/ Connect(c)
  \/ \E state \in ClientStates : ClientState(c, state)
  \/ Accepted(c) \/ Rejected(c) \/ Leave(c) \/ Released(c)
  \/ TakeSnapshot(c) \/ BroadcastSnapshot(c) \/ Notify(c)

Watcher(v) ==
  \/ LookUp(v) \/ ReadSlot(v) \/ ReadRoom(v)
  \/ Register(v) \/ ReadSnapshot(v) \/ SendSnapshot(v)
  \/ Observe(v) \/ FirstToken(v) \/ Forward(v) \/ Close(v)

ViewersNext ==
  \/ \E c \in Conns : Device(c)
  \/ \E s \in Sessions : PublishData(s)
  \/ \E v \in Watchers : Watcher(v)

ViewersSpec == ViewersInit /\ [][ViewersNext]_viewerVars

-----------------------------------------------------------------------------
ViewersTypeOK ==
  /\ TypeOK
  /\ version \in [Sessions -> Versions]
  /\ news \in [Conns -> {"none", "snapshot", "broadcast", "notify"}]
  /\ taken \in [Conns -> Versions \cup {None}]
  /\ vpc \in [Watchers -> Steps]
  /\ watching \in [Watchers -> Sessions \cup {NoSession}]
  /\ next \in [Watchers -> Sessions \cup {NoSession}]
  /\ snapshot \in [Watchers -> Versions \cup {None}]
  /\ mailbox \in [Watchers -> {Empty} \cup {<<n>> : n \in 0..MaxVersion}]
  /\ token \in [Watchers -> BOOLEAN] /\ observing \in [Watchers -> BOOLEAN]
  /\ seen \in [Watchers -> Versions \cup {None}]
  /\ missed \in [Watchers -> BOOLEAN]

\* No handler of the account is between a change and its notification.
Settled(u) ==
  \A c \in Conns :
    UserOf(c) = u => news[c] = "none" /\ pc[c] \notin {"claimed", "detaching"}

\* The slot of an account is taken and its owner's room is active.
MonitorActive(u) ==
  LET s == activeMonitors[u] IN s # NoSession /\ connected[s] /\ online[s]

\* A viewer follows the account's monitor: once the handlers have notified and
\* the viewer waits with no token left, it watches the active monitor, however
\* starts, stops and its own look-ups overlapped (viewerSession: "the in-memory
\* active claim wins").
FollowsMonitor ==
  \A v \in Watchers :
    LET u == AccountOf[v] IN
    vpc[v] = "loop" /\ ~token[v] /\ Settled(u) /\ MonitorActive(u)
      => watching[v] = activeMonitors[u]

\* A viewer that has read its channel sees the state of the room as it is, once
\* the handlers have notified, unless a snapshot was lost to another message or
\* to a Subscribe that was waiting.
SeesRoom ==
  \A v \in Watchers :
    vpc[v] = "loop" /\ mailbox[v] = Empty /\ Settled(OwnerOf[watching[v]])
      => missed[v] \/ seen[v] = version[watching[v]]

=============================================================================
