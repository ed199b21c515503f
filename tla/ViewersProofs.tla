---------------------------- MODULE ViewersProofs ----------------------------
(***************************************************************************)
(* Theorems about Viewers, for any number of accounts, devices, handlers,  *)
(* viewers and stored states.  That a page follows the account's monitor   *)
(* holds with overlapping handlers too; that it sees its room needs that a *)
(* device connects again only after its last handler returned.             *)
(*                                                                         *)
(* Both arguments say what is still to come: as long as a handler of the   *)
(* account is on its way to notify, or a token waits, the page may be      *)
(* behind, and every change of the account's monitor puts a handler on     *)
(* that way before the change can be seen.                                 *)
(***************************************************************************)
EXTENDS Viewers, TLAPS

\* A viewer of account u is about to look again.
Pending(v) == token[v] \/ ~Settled(AccountOf[v])

\* The account has no active monitor, or it is session s.
MonitorIs(u, s) == MonitorActive(u) => s = activeMonitors[u]

\* A slot is reserved for a session of its own account.
SlotOfOwner ==
  \A u \in Users : activeMonitors[u] # NoSession => OwnerOf[activeMonitors[u]] = u

\* Where a handler is tells what it has registered for.
Shape(v) ==
  /\ vpc[v] = "out" => ~observing[v] /\ watching[v] = NoSession
  /\ vpc[v] \in {"token", "loop"} => observing[v]
  /\ vpc[v] \in {"slot", "room", "register"} => (observing[v] <=> watching[v] # NoSession)
  /\ vpc[v] \in {"snapshot", "send", "observe", "token", "loop"} => watching[v] \in Sessions
  /\ vpc[v] = "register" => next[v] \in Sessions

\* Whoever is registered for notifications, and has none to come, has looked up
\* the monitor, or watches it.
Follows(v) ==
  observing[v] /\ ~Pending(v) =>
    /\ vpc[v] \in {"room", "register"} => MonitorIs(AccountOf[v], next[v])
    /\ vpc[v] \in {"snapshot", "send", "loop"} => MonitorIs(AccountOf[v], watching[v])

FollowInv ==
  /\ ViewersTypeOK /\ SlotOfOwner
  /\ \A v \in Watchers : Shape(v) /\ Follows(v)

\* Of the handlers of a session one at most is running or telling.
HandlersApart ==
  \A c, d \in Conns :
    /\ SessionOf[c] = SessionOf[d]
    /\ pc[c] # "closed" \/ news[c] # "none"
    /\ pc[d] # "closed" \/ news[d] # "none"
    => c = d

\* A handler tells between its messages, or last, and what it broadcasts is new.
NewsAreNew ==
  \A c \in Conns :
    /\ news[c] # "none" => pc[c] \in {"serving", "closed"}
    /\ news[c] = "broadcast" => taken[c] = version[SessionOf[c]]

\* A snapshot of the room is still to be broadcast.
Coming(s) ==
  \E c \in Conns :
    SessionOf[c] = s /\ (news[c] \in {"snapshot", "broadcast"} \/ pc[c] = "detaching")

\* The last snapshot that the viewer has got, or has in its channel.
Last(v) == IF mailbox[v] \in {Empty, Data} THEN seen[v] ELSE mailbox[v][1]

Sees(v) ==
  watching[v] # NoSession =>
    /\ vpc[v] = "send" /\ mailbox[v] = Empty =>
         snapshot[v] = version[watching[v]] \/ Coming(watching[v])
    /\ vpc[v] = "send" /\ mailbox[v] = Data =>
         missed[v] \/ snapshot[v] = version[watching[v]] \/ Coming(watching[v])
    /\ vpc[v] \in {"observe", "token", "loop", "slot", "room", "register"} =>
         missed[v] \/ Last(v) = version[watching[v]] \/ Coming(watching[v])

SightInv == HandlersApart /\ NewsAreNew /\ \A v \in Watchers : Sees(v)

Mail == {Empty} \cup {<<n>> : n \in 0..MaxVersion}

-----------------------------------------------------------------------------
(***************************************************************************)
(* Helpers.                                                                *)
(***************************************************************************)
LEMMA ConnFacts ==
  ASSUME NEW c \in Conns
  PROVE  SessionOf[c] \in Sessions /\ SessionOf[c] # NoSession /\ UserOf(c) \in Users
BY HubAssumption DEF UserOf

LEMMA MonitoringType ==
  ASSUME NEW state \in ClientStates \cup {NoState}
  PROVE  Monitoring(state) \in BOOLEAN
BY DEF Monitoring, ClientStates, NoState

\* What is in a channel of messages.
LEMMA MailFacts ==
  /\ Empty \in Mail /\ Data \in Mail /\ Data # Empty
  /\ \A n \in Versions : /\ Snapshot(n) \in Mail /\ Snapshot(n) \notin {Empty, Data}
                         /\ Snapshot(n)[1] = n
  /\ Snapshot(None) = Data
  /\ \A m \in Mail \ {Empty, Data} : m[1] \in Versions
<1>1. MaxVersion \in Nat
  BY ViewersAssumption
<1>2. /\ Empty = << >> /\ Data = <<0>> /\ \A n : Snapshot(n) = <<n>>
      /\ Versions = 1..MaxVersion /\ None = 0
  BY DEF Empty, Data, Snapshot, Versions, None
<1>3. \A n \in Nat : <<n>> # << >> /\ <<n>>[1] = n
  OBVIOUS
<1>4. \A n \in 0..MaxVersion : <<n>> \in Mail
  BY DEF Mail
<1>5. ASSUME NEW m \in Mail \ {Empty, Data}
      PROVE  m[1] \in Versions
  <2>1. PICK n \in 0..MaxVersion : m = <<n>>
    BY <1>5 DEF Mail
  <2>2. n # 0
    BY <1>2, <2>1
  <2> QED BY <1>1, <1>2, <2>1, <2>2
<1> QED BY <1>1, <1>2, <1>3, <1>4, <1>5 DEF Mail

\* A step of a viewer leaves the hub, the handlers and the other viewers alone.
LEMMA OneWatcher ==
  ASSUME ViewersTypeOK, NEW w \in Watchers, Watcher(w)
  PROVE  /\ UNCHANGED <<vars, deviceVars>>
         /\ \A v \in Watchers :
              v # w => /\ vpc'[v] = vpc[v] /\ watching'[v] = watching[v]
                       /\ next'[v] = next[v] /\ snapshot'[v] = snapshot[v]
                       /\ mailbox'[v] = mailbox[v] /\ token'[v] = token[v]
                       /\ observing'[v] = observing[v] /\ seen'[v] = seen[v]
                       /\ missed'[v] = missed[v]
BY DEF Watcher, LookUp, ReadSlot, ReadRoom, Register, ReadSnapshot, SendSnapshot,
       Observe, FirstToken, Forward, Close, ViewersTypeOK

-----------------------------------------------------------------------------
(***************************************************************************)
(* Types.                                                                  *)
(***************************************************************************)
LEMMA HubTypeStep ==
  ASSUME TypeOK, NEW c \in Conns, Handler(c)
  PROVE  TypeOK'
<1> USE HubAssumption DEF TypeOK, Stages
<1>1. CASE AttachDevice(c)
  <2>1. Monitoring(clientState[SessionOf[c]]) \in BOOLEAN
    BY MonitoringType
  <2> QED BY <1>1, <2>1 DEF AttachDevice
<1>2. ASSUME NEW state \in ClientStates, PublishClaim(c, state)
      PROVE  TypeOK'
  <2>1. Monitoring(state) \in BOOLEAN
    BY MonitoringType
  <2>2. ClaimAfter(c, state) \in [Users -> Sessions \cup {NoSession}]
    BY DEF ClaimAfter, UserOf
  <2> QED BY <1>2, <2>1, <2>2 DEF PublishClaim, roomVars
<1>3. ASSUME NEW state \in ClientStates, PublishRejected(c, state)
      PROVE  TypeOK'
  BY <1>3 DEF PublishRejected
<1>4. CASE PublishState(c)
  <2>1. OnlineAfter(c) \in BOOLEAN
    BY MonitoringType DEF OnlineAfter
  <2> QED BY <1>4, <2>1 DEF PublishState
<1>5. CASE StopRejected(c)
  BY <1>5 DEF StopRejected
<1>6. CASE DetachRoom(c)
  BY <1>6 DEF DetachRoom, OwnRoom
<1>7. CASE DetachClaim(c)
  BY <1>7 DEF DetachClaim, ReleaseAfter, UserOf
<1> QED BY <1>1, <1>2, <1>3, <1>4, <1>5, <1>6, <1>7 DEF Handler

\* What a handler does, it does to the hub first.
HubPart(c) ==
  \/ Connect(c)
  \/ \E state \in ClientStates : ClientState(c, state)
  \/ Accepted(c) \/ Rejected(c) \/ Leave(c) \/ Released(c)

LEMMA HubPartIsHandler ==
  ASSUME NEW c \in Conns, HubPart(c)
  PROVE  Handler(c)
BY DEF HubPart, Handler, Connect, ClientState, Accepted, Rejected, Leave, Released

DeviceTypes ==
  /\ version \in [Sessions -> Versions]
  /\ news \in [Conns -> {"none", "snapshot", "broadcast", "notify"}]
  /\ taken \in [Conns -> Versions \cup {None}]

WatcherTypes ==
  /\ vpc \in [Watchers -> Steps]
  /\ watching \in [Watchers -> Sessions \cup {NoSession}]
  /\ next \in [Watchers -> Sessions \cup {NoSession}]
  /\ snapshot \in [Watchers -> Versions \cup {None}]
  /\ mailbox \in [Watchers -> Mail]
  /\ token \in [Watchers -> BOOLEAN] /\ observing \in [Watchers -> BOOLEAN]
  /\ seen \in [Watchers -> Versions \cup {None}]
  /\ missed \in [Watchers -> BOOLEAN]

LEMMA TypeParts == ViewersTypeOK <=> TypeOK /\ DeviceTypes /\ WatcherTypes
BY DEF ViewersTypeOK, DeviceTypes, WatcherTypes, Mail

LEMMA ViewersTypeInit == ViewersInit => ViewersTypeOK
<1> SUFFICES ASSUME ViewersInit
             PROVE  TypeOK /\ DeviceTypes /\ WatcherTypes
  BY TypeParts
<1>1. TypeOK
  BY HubAssumption DEF ViewersInit, Init, TypeOK, Stages
<1>2. DeviceTypes
  <2>1. 1 \in Versions
    BY ViewersAssumption DEF Versions
  <2> QED BY <2>1 DEF ViewersInit, DeviceTypes
<1>3. WatcherTypes
  BY MailFacts DEF ViewersInit, WatcherTypes, Steps
<1> QED BY <1>1, <1>2, <1>3

LEMMA StoredType ==
  ASSUME DeviceTypes, NEW c \in Conns, Stored(c)
  PROVE  version' \in [Sessions -> Versions]
<1>1. version[SessionOf[c]] + 1 \in Versions
  BY ConnFacts, ViewersAssumption DEF Stored, DeviceTypes, Versions
<1> QED BY <1>1 DEF Stored, DeviceTypes

LEMMA HubPartTypes ==
  ASSUME DeviceTypes, WatcherTypes, NEW c \in Conns, HubPart(c)
  PROVE  DeviceTypes' /\ WatcherTypes' /\ UNCHANGED watcherVars
<1>1. UNCHANGED watcherVars
  BY DEF HubPart, Connect, ClientState, Accepted, Rejected, Leave, Released, Tell
<1>2. WatcherTypes'
  BY <1>1 DEF watcherVars, WatcherTypes
<1>3. version' \in [Sessions -> Versions]
  <2>1. Stored(c) \/ version' = version
    BY DEF HubPart, Connect, ClientState, Accepted, Rejected, Leave, Released,
           deviceVars
  <2> QED BY <2>1, StoredType DEF DeviceTypes
<1>4. taken' = taken /\ (news' = news \/ news' = [news EXCEPT ![c] = "snapshot"])
  BY DEF HubPart, Connect, ClientState, Accepted, Rejected, Leave, Released, Tell,
         deviceVars
<1>5. DeviceTypes'
  BY <1>3, <1>4 DEF DeviceTypes
<1> QED BY <1>1, <1>2, <1>5

LEMMA BroadcastTypes ==
  ASSUME WatcherTypes, NEW s \in Sessions, NEW message \in Mail,
         NEW front \in SUBSET Watchers, Broadcast(s, message, front)
  PROVE  WatcherTypes'
<1>1. mailbox' \in [Watchers -> Mail]
  <2>1. \A v \in Watchers : Snapshot(snapshot[v]) \in Mail
    BY MailFacts DEF WatcherTypes
  <2> QED BY <2>1 DEF Broadcast, Delivered, WatcherTypes
<1>2. missed' \in [Watchers -> BOOLEAN]
  <2>1. \A v \in Watchers :
          /\ missed[v] \in BOOLEAN
          /\ (v \in front /\ message # Snapshot(snapshot[v])) \in BOOLEAN
          /\ (missed[v] \/ mailbox[v] \notin {Empty, Data}) \in BOOLEAN
    BY DEF WatcherTypes
  <2> QED BY <2>1 DEF Broadcast
<1>3. vpc' \in [Watchers -> Steps]
  BY DEF Broadcast, WatcherTypes, Steps
<1>4. snapshot' \in [Watchers -> Versions \cup {None}]
  BY DEF Broadcast, WatcherTypes
<1>5. UNCHANGED <<watching, next, token, observing, seen>>
  BY DEF Broadcast
<1> QED BY <1>1, <1>2, <1>3, <1>4, <1>5 DEF WatcherTypes

LEMMA WatcherStepTypes ==
  ASSUME ViewersTypeOK, NEW v \in Watchers, Shape(v), Watcher(v)
  PROVE  WatcherTypes'
<1> USE DEF WatcherTypes, Steps
<1>0. TypeOK /\ DeviceTypes /\ WatcherTypes
  BY TypeParts
<1>1. CASE LookUp(v)
  BY <1>0, <1>1 DEF LookUp
<1>2. CASE ReadSlot(v)
  BY <1>0, <1>2, ViewersAssumption DEF ReadSlot, TypeOK
<1>3. CASE ReadRoom(v)
  <2>1. next' \in [Watchers -> Sessions \cup {NoSession}]
    BY <1>0, <1>3 DEF ReadRoom
  <2>2. vpc' \in [Watchers -> Steps]
    BY <1>0, <1>3 DEF ReadRoom
  <2> QED BY <1>0, <1>3, <2>1, <2>2 DEF ReadRoom
<1>4. CASE Register(v)
  BY <1>0, <1>4, MailFacts DEF Register
<1>5. CASE ReadSnapshot(v)
  <2>1. watching[v] \in Sessions
    BY <1>5 DEF Shape, ReadSnapshot
  <2>2. version[watching[v]] \in Versions \cup {None}
    BY <1>0, <2>1 DEF DeviceTypes
  <2> QED BY <1>0, <1>5, <2>2 DEF ReadSnapshot
<1>6. CASE SendSnapshot(v)
  <2>1. Snapshot(snapshot[v]) \in Mail
    BY <1>0, MailFacts
  <2> QED BY <1>0, <1>6, <2>1 DEF SendSnapshot
<1>7. CASE Observe(v)
  BY <1>0, <1>7 DEF Observe
<1>8. CASE FirstToken(v)
  BY <1>0, <1>8 DEF FirstToken
<1>9. CASE Forward(v)
  <2>1. (IF mailbox[v] = Data THEN seen[v] ELSE mailbox[v][1]) \in Versions \cup {None}
    BY <1>0, <1>9, MailFacts DEF Forward
  <2> QED BY <1>0, <1>9, <2>1, MailFacts DEF Forward
<1>10. CASE Close(v)
  BY <1>0, <1>10, MailFacts DEF Close
<1> QED BY <1>1, <1>2, <1>3, <1>4, <1>5, <1>6, <1>7, <1>8, <1>9, <1>10 DEF Watcher

LEMMA ViewersTypeStep ==
  ViewersTypeOK /\ (\A v \in Watchers : Shape(v)) /\ [ViewersNext]_viewerVars
    => ViewersTypeOK'
<1> SUFFICES ASSUME TypeOK, DeviceTypes, WatcherTypes, \A v \in Watchers : Shape(v),
                    [ViewersNext]_viewerVars
             PROVE  TypeOK' /\ DeviceTypes' /\ WatcherTypes'
  BY DEF ViewersTypeOK, DeviceTypes, WatcherTypes, Mail
<1>a. ASSUME UNCHANGED vars
      PROVE  TypeOK'
  BY <1>a DEF vars, TypeOK
<1>1. ASSUME NEW c \in Conns, HubPart(c)
      PROVE  TypeOK' /\ DeviceTypes' /\ WatcherTypes'
  BY <1>1, HubPartIsHandler, HubTypeStep, HubPartTypes
<1>2. ASSUME NEW c \in Conns, TakeSnapshot(c)
      PROVE  TypeOK' /\ DeviceTypes' /\ WatcherTypes'
  <2>1. DeviceTypes'
    BY <1>2, ConnFacts DEF TakeSnapshot, DeviceTypes
  <2>2. WatcherTypes'
    BY <1>2 DEF TakeSnapshot, WatcherTypes, watcherVars
  <2> QED BY <1>2, <1>a, <2>1, <2>2 DEF TakeSnapshot
<1>3. ASSUME NEW c \in Conns, BroadcastSnapshot(c)
      PROVE  TypeOK' /\ DeviceTypes' /\ WatcherTypes'
  <2>1. Snapshot(taken[c]) \in Mail
    BY MailFacts DEF DeviceTypes
  <2>2. PICK front \in SUBSET Watchers :
          Broadcast(SessionOf[c], Snapshot(taken[c]), front)
    BY <1>3 DEF BroadcastSnapshot
  <2>3. WatcherTypes'
    BY <2>1, <2>2, ConnFacts, BroadcastTypes
  <2>4. DeviceTypes'
    BY <1>3 DEF BroadcastSnapshot, DeviceTypes
  <2> QED BY <1>3, <1>a, <2>3, <2>4 DEF BroadcastSnapshot
<1>4. ASSUME NEW c \in Conns, Notify(c)
      PROVE  TypeOK' /\ DeviceTypes' /\ WatcherTypes'
  <2>1. token' \in [Watchers -> BOOLEAN]
    <3>1. \A v \in Watchers : (token[v] \/ v \in Observers(UserOf(c))) \in BOOLEAN
      OBVIOUS
    <3> QED BY <1>4, <3>1 DEF Notify
  <2>2. WatcherTypes'
    BY <1>4, <2>1 DEF Notify, WatcherTypes
  <2>3. DeviceTypes'
    BY <1>4 DEF Notify, DeviceTypes
  <2> QED BY <1>4, <1>a, <2>2, <2>3 DEF Notify
<1>5. ASSUME NEW s \in Sessions, PublishData(s)
      PROVE  TypeOK' /\ DeviceTypes' /\ WatcherTypes'
  <2>1. WatcherTypes'
    BY <1>5, MailFacts, BroadcastTypes DEF PublishData
  <2>2. DeviceTypes'
    BY <1>5 DEF PublishData, deviceVars, DeviceTypes
  <2> QED BY <1>5, <1>a, <2>1, <2>2 DEF PublishData
<1>6. ASSUME NEW v \in Watchers, Watcher(v)
      PROVE  TypeOK' /\ DeviceTypes' /\ WatcherTypes'
  <2>1. ViewersTypeOK
    BY TypeParts
  <2>2. UNCHANGED <<vars, deviceVars>>
    BY <1>6, <2>1, OneWatcher
  <2>3. DeviceTypes'
    BY <2>2 DEF deviceVars, DeviceTypes
  <2> QED BY <1>6, <1>a, <2>1, <2>2, <2>3, WatcherStepTypes
<1>7. CASE UNCHANGED viewerVars
  <2>1. DeviceTypes' /\ WatcherTypes'
    BY <1>7 DEF viewerVars, deviceVars, watcherVars, DeviceTypes, WatcherTypes
  <2> QED BY <1>7, <1>a, <2>1 DEF viewerVars
<1> QED BY <1>1, <1>2, <1>3, <1>4, <1>5, <1>6, <1>7
        DEF ViewersNext, Device, HubPart

\* The steps that leave a viewer where it is, or let it through Subscribe.
LEMMA BroadcastPlaces ==
  ASSUME WatcherTypes, NEW s \in Sessions, NEW message,
         NEW front \in SUBSET Watchers, Broadcast(s, message, front), NEW v \in Watchers
  PROVE  /\ \/ vpc'[v] = vpc[v]
            \/ vpc[v] = "send" /\ vpc'[v] = IF observing[v] THEN "loop" ELSE "observe"
         /\ watching'[v] = watching[v] /\ next'[v] = next[v]
         /\ token'[v] = token[v] /\ observing'[v] = observing[v]
BY DEF Broadcast, WatcherTypes

LEMMA ShapeStep ==
  ASSUME ViewersTypeOK, [ViewersNext]_viewerVars, NEW v \in Watchers, Shape(v)
  PROVE  Shape(v)'
<1>0. DeviceTypes /\ WatcherTypes
  BY TypeParts
<1>a. ASSUME vpc'[v] = vpc[v], watching'[v] = watching[v], next'[v] = next[v],
             observing'[v] = observing[v]
      PROVE  Shape(v)'
  BY <1>a DEF Shape
<1>1. ASSUME NEW c \in Conns, HubPart(c) \/ TakeSnapshot(c)
      PROVE  Shape(v)'
  <2>1. UNCHANGED watcherVars
    BY <1>0, <1>1, HubPartTypes DEF TakeSnapshot
  <2> QED BY <1>a, <2>1 DEF watcherVars
<1>2. ASSUME NEW s \in Sessions, NEW message, NEW front \in SUBSET Watchers,
             Broadcast(s, message, front)
      PROVE  Shape(v)'
  BY <1>0, <1>2, BroadcastPlaces DEF Shape
<1>3. ASSUME NEW c \in Conns, Notify(c)
      PROVE  Shape(v)'
  BY <1>3, <1>a DEF Notify
<1>4. ASSUME NEW w \in Watchers, Watcher(w)
      PROVE  Shape(v)'
  <2>1. CASE w # v
    BY <1>4, <1>a, <2>1, OneWatcher
  <2>2. CASE w = v
    <3> USE <2>2, <1>0 DEF WatcherTypes, Shape
    <3>1. CASE LookUp(w)
      BY <3>1, HubAssumption DEF LookUp
    <3>2. CASE ReadSlot(w)
      BY <3>2 DEF ReadSlot
    <3>3. CASE ReadRoom(w)
      <4>1. PICK s \in Sessions \cup {NoSession} :
              /\ next'[v] = IF s = watching[v] THEN NoSession ELSE s
              /\ vpc'[v] = IF s # watching[v] THEN "register"
                           ELSE IF s = NoSession THEN "out" ELSE "loop"
              /\ s # watching[v] => s \in Sessions
        <5> DEFINE active == next[w] # NoSession /\ connected[next[w]] /\ online[next[w]]
        <5>1. PICK s \in IF active THEN {next[w]}
                         ELSE {watching[w]} \cup {t \in Sessions : OwnerOf[t] = AccountOf[w]} :
                /\ next' = [next EXCEPT ![w] = IF s = watching[w] THEN NoSession ELSE s]
                /\ vpc' = [vpc EXCEPT ![w] =
                             IF s # watching[w] THEN "register"
                             ELSE IF s = NoSession THEN "out" ELSE "loop"]
          BY <3>3 DEF ReadRoom
        <5>2. s \in Sessions \cup {NoSession} /\ (s # watching[w] => s \in Sessions)
          BY <5>1
        <5> QED BY <5>1, <5>2
      <4>2. /\ vpc[v] = "room" /\ watching'[v] = watching[v]
            /\ observing'[v] = observing[v]
        BY <3>3 DEF ReadRoom
      <4> QED BY <4>1, <4>2
    <3>4. CASE Register(w)
      BY <3>4 DEF Register
    <3>5. CASE ReadSnapshot(w) \/ SendSnapshot(w)
      BY <3>5 DEF ReadSnapshot, SendSnapshot
    <3>6. CASE Observe(w) \/ FirstToken(w)
      BY <3>6 DEF Observe, FirstToken
    <3>7. CASE Forward(w) \/ Close(w)
      BY <3>7 DEF Forward, Close
    <3> QED BY <1>4, <3>1, <3>2, <3>3, <3>4, <3>5, <3>6, <3>7 DEF Watcher
  <2> QED BY <2>1, <2>2
<1>5. CASE UNCHANGED viewerVars
  BY <1>5, <1>a DEF viewerVars, watcherVars
<1> QED BY <1>1, <1>2, <1>3, <1>4, <1>5, ConnFacts
        DEF ViewersNext, Device, HubPart, BroadcastSnapshot, PublishData

-----------------------------------------------------------------------------
(***************************************************************************)
(* A page follows the account's monitor.                                   *)
(***************************************************************************)
LEMMA SlotOfOwnerStep ==
  ASSUME TypeOK, SlotOfOwner, NEW c \in Conns, Handler(c)
  PROVE  SlotOfOwner'
<1>1. OwnerOf[SessionOf[c]] = UserOf(c) /\ UserOf(c) \in Users
  BY ConnFacts DEF UserOf
<1>2. \/ UNCHANGED activeMonitors
      \/ activeMonitors' = [activeMonitors EXCEPT ![UserOf(c)] = SessionOf[c]]
      \/ activeMonitors' = [activeMonitors EXCEPT ![UserOf(c)] = NoSession]
  BY DEF Handler, AttachDevice, PublishClaim, ClaimAfter, PublishRejected, PublishState,
         StopRejected, DetachRoom, DetachClaim, ReleaseAfter
<1> QED BY <1>1, <1>2 DEF SlotOfOwner, TypeOK

\* A handler of another account changes nothing of the account's monitor.
LEMMA OtherAccount ==
  ASSUME TypeOK, SlotOfOwner, NEW c \in Conns, Handler(c),
         NEW u \in Users, u # UserOf(c)
  PROVE  /\ activeMonitors'[u] = activeMonitors[u]
         /\ MonitorActive(u)' = MonitorActive(u)
<1>1. activeMonitors'[u] = activeMonitors[u]
  BY DEF Handler, AttachDevice, PublishClaim, ClaimAfter, PublishRejected, PublishState,
         StopRejected, DetachRoom, DetachClaim, ReleaseAfter, TypeOK
<1>2. activeMonitors[u] # NoSession =>
        activeMonitors[u] \in Sessions /\ activeMonitors[u] # SessionOf[c]
  BY DEF SlotOfOwner, UserOf, TypeOK
<1>3. \A s \in Sessions :
        s # SessionOf[c] => connected'[s] = connected[s] /\ online'[s] = online[s]
  BY DEF Handler, AttachDevice, PublishClaim, roomVars, PublishRejected, PublishState,
         StopRejected, DetachRoom, DetachClaim, TypeOK
<1> QED BY <1>1, <1>2, <1>3 DEF MonitorActive

\* Whatever a handler does: its account is not settled now, or it was settled before
\* and has the same monitor.
Quiet(u) ==
  \/ ~Settled(u)'
  \/ /\ Settled(u) /\ activeMonitors'[u] = activeMonitors[u]
     /\ MonitorActive(u)' = MonitorActive(u)

LEMMA HandlerQuiet ==
  ASSUME ViewersTypeOK, SlotOfOwner, NEW c \in Conns, HubPart(c) \/ TakeSnapshot(c),
         NEW u \in Users
  PROVE  Quiet(u)
<1>0. TypeOK /\ DeviceTypes
  BY TypeParts
<1>1. \A d \in Conns : d # c => pc'[d] = pc[d] /\ news'[d] = news[d]
  BY <1>0 DEF HubPart, Connect, ClientState, Accepted, Rejected, Leave, Released,
     TakeSnapshot, AttachDevice, PublishClaim, PublishRejected, PublishState,
     StopRejected, DetachRoom, DetachClaim, Tell, deviceVars, vars, TypeOK, DeviceTypes
<1>2. CASE UserOf(c) # u
  <2>1. Settled(u)' => Settled(u)
    BY <1>1, <1>2 DEF Settled, UserOf
  <2>2. CASE HubPart(c)
    BY <1>0, <1>2, <2>1, <2>2, HubPartIsHandler, OtherAccount DEF Quiet
  <2>3. CASE TakeSnapshot(c)
    BY <2>1, <2>3 DEF Quiet, TakeSnapshot, vars, MonitorActive
  <2> QED BY <2>2, <2>3
<1>3. CASE UserOf(c) = u
  <2>1. CASE \/ Connect(c) \/ Accepted(c) \/ Leave(c) \/ Released(c) \/ TakeSnapshot(c)
             \/ \E state \in ClientStates :
                  ClientState(c, state) /\ PublishClaim(c, state)
    <3>1. news'[c] # "none" \/ pc'[c] \in {"claimed", "detaching"}
      BY <1>0, <2>1 DEF Connect, ClientState, Accepted, Leave, Released, TakeSnapshot, Tell,
         PublishClaim, DetachRoom, TypeOK, DeviceTypes
    <3> QED BY <1>3, <3>1 DEF Quiet, Settled, UserOf
  <2>2. CASE Rejected(c) \/ \E state \in ClientStates :
                              ClientState(c, state) /\ PublishRejected(c, state)
    <3>1. /\ UNCHANGED <<connected, online, activeMonitors, news>>
          /\ pc[c] \in {"serving", "rejected"}
      BY <2>2 DEF Rejected, ClientState, PublishRejected, StopRejected, deviceVars
    <3>2. MonitorActive(u)' = MonitorActive(u)
      BY <3>1 DEF MonitorActive
    <3>3. Settled(u)' => Settled(u)
      BY <1>1, <3>1 DEF Settled, UserOf
    <3> QED BY <3>1, <3>2, <3>3 DEF Quiet
  <2> QED BY <2>1, <2>2 DEF HubPart, ClientState
<1> QED BY <1>2, <1>3

\* The viewer's own steps.
LEMMA OwnFollows ==
  ASSUME ViewersTypeOK, NEW v \in Watchers, Shape(v), Follows(v), Watcher(v)
  PROVE  Follows(v)'
<1> DEFINE u == AccountOf[v]
           isActive == MonitorActive(u)
<1>0. UNCHANGED <<vars, deviceVars>> /\ WatcherTypes
  BY OneWatcher, TypeParts
<1>1. /\ Settled(u)' = Settled(u) /\ activeMonitors' = activeMonitors
      /\ isActive' = isActive
  BY <1>0 DEF Settled, MonitorActive, vars, deviceVars
<1>2. isActive = (activeMonitors[u] # NoSession
                   /\ connected[activeMonitors[u]] /\ online[activeMonitors[u]])
  BY DEF MonitorActive
<1>3. SUFFICES ASSUME observing'[v], ~token'[v], Settled(u), isActive
               PROVE  /\ vpc'[v] \in {"room", "register"} => next'[v] = activeMonitors[u]
                      /\ vpc'[v] \in {"snapshot", "send", "loop"} =>
                           watching'[v] = activeMonitors[u]
  BY <1>1 DEF Follows, Pending, MonitorIs
<1>4. ASSUME observing[v], ~token[v]
      PROVE  /\ vpc[v] \in {"room", "register"} => next[v] = activeMonitors[u]
             /\ vpc[v] \in {"snapshot", "send", "loop"} => watching[v] = activeMonitors[u]
  BY <1>3, <1>4 DEF Follows, Pending, MonitorIs
<1> HIDE DEF u, isActive
<1> USE <1>0 DEF WatcherTypes
<1>5. CASE LookUp(v)
  BY <1>5 DEF LookUp
<1>6. CASE ReadSlot(v)
  BY <1>6 DEF ReadSlot, u
<1>7. CASE ReadRoom(v)
  <2>1. vpc[v] = "room" /\ UNCHANGED <<watching, token, observing>>
    BY <1>7 DEF ReadRoom
  <2>2. next[v] = activeMonitors[u]
    BY <1>3, <1>4, <2>1
  <2>3. next[v] # NoSession /\ connected[next[v]] /\ online[next[v]]
    BY <1>2, <1>3, <2>2
  <2>4. /\ next' = [next EXCEPT ![v] = IF next[v] = watching[v] THEN NoSession ELSE next[v]]
        /\ vpc' = [vpc EXCEPT ![v] = IF next[v] # watching[v] THEN "register" ELSE "loop"]
    BY <1>7, <2>3 DEF ReadRoom
  <2> QED BY <2>1, <2>2, <2>4
<1>8. CASE Register(v)
  BY <1>3, <1>4, <1>8 DEF Register
<1>9. CASE ReadSnapshot(v) \/ SendSnapshot(v)
  BY <1>3, <1>4, <1>9 DEF ReadSnapshot, SendSnapshot
<1>10. CASE Observe(v) \/ FirstToken(v)
  BY <1>3, <1>10 DEF Observe, FirstToken
<1>11. CASE Forward(v) \/ Close(v)
  BY <1>3, <1>4, <1>11 DEF Forward, Close
<1> QED BY <1>5, <1>6, <1>7, <1>8, <1>9, <1>10, <1>11 DEF Watcher

LEMMA FollowStep == FollowInv /\ [ViewersNext]_viewerVars => FollowInv'
<1> SUFFICES ASSUME FollowInv, [ViewersNext]_viewerVars
             PROVE  FollowInv'
  OBVIOUS
<1>0. /\ ViewersTypeOK /\ SlotOfOwner /\ \A v \in Watchers : Shape(v) /\ Follows(v)
      /\ TypeOK /\ DeviceTypes /\ WatcherTypes
  BY TypeParts DEF FollowInv
<1>1. ViewersTypeOK'
  BY <1>0, ViewersTypeStep
<1>2. \A v \in Watchers : Shape(v)'
  BY <1>0, ShapeStep
<1>3. SlotOfOwner'
  <2>1. ASSUME UNCHANGED vars
        PROVE  SlotOfOwner'
    BY <1>0, <2>1 DEF vars, SlotOfOwner
  <2>2. ASSUME NEW c \in Conns, HubPart(c)
        PROVE  SlotOfOwner'
    BY <1>0, <2>2, HubPartIsHandler, SlotOfOwnerStep
  <2>3. ASSUME NEW w \in Watchers, Watcher(w)
        PROVE  UNCHANGED vars
    BY <1>0, <2>3, OneWatcher
  <2> QED BY <2>1, <2>2, <2>3
          DEF ViewersNext, Device, HubPart, TakeSnapshot, BroadcastSnapshot, Notify,
              PublishData, viewerVars
<1>4. ASSUME NEW v \in Watchers
      PROVE  Follows(v)'
  <2> DEFINE u == AccountOf[v]
  <2>0. u \in Users /\ Shape(v) /\ Follows(v)
    BY <1>0, ViewersAssumption
  \* The viewer stays where it is, or goes through Subscribe, while its account is
  \* quiet.
  <2>a. ASSUME Quiet(u), observing'[v] = observing[v],
               token[v] => token'[v], next'[v] = next[v], watching'[v] = watching[v],
               \/ vpc'[v] = vpc[v]
               \/ vpc[v] = "send" /\ vpc'[v] \in {"loop", "observe"}
        PROVE  Follows(v)'
    BY <2>0, <2>a DEF Follows, Pending, MonitorIs, Quiet
  <2>b. ASSUME UNCHANGED vars, \A c \in Conns :
                 UserOf(c) = u /\ news'[c] = "none" => news[c] = "none"
        PROVE  Quiet(u)
    <3>1. MonitorActive(u)' = MonitorActive(u) /\ UNCHANGED <<pc, activeMonitors>>
      BY <2>b DEF vars, MonitorActive
    <3>2. Settled(u)' => Settled(u)
      BY <2>b, <3>1 DEF Settled, UserOf
    <3> QED BY <3>1, <3>2 DEF Quiet
  <2> HIDE DEF u
  <2>1. ASSUME NEW c \in Conns, HubPart(c) \/ TakeSnapshot(c)
        PROVE  Follows(v)'
    <3>1. Quiet(u)
      BY <1>0, <2>0, <2>1, HandlerQuiet
    <3>2. UNCHANGED watcherVars
      BY <1>0, <2>1, HubPartTypes DEF TakeSnapshot
    <3> QED BY <2>a, <3>1, <3>2 DEF watcherVars
  <2>2. ASSUME NEW s \in Sessions, NEW message, NEW front \in SUBSET Watchers,
               Broadcast(s, message, front), Quiet(u)
        PROVE  Follows(v)'
    BY <1>0, <2>2, <2>a, BroadcastPlaces
  <2>3. ASSUME NEW c \in Conns, BroadcastSnapshot(c)
        PROVE  Follows(v)'
    <3>1. UNCHANGED vars /\ news' = [news EXCEPT ![c] = "notify"]
      BY <2>3 DEF BroadcastSnapshot
    <3>2. Quiet(u)
      BY <1>0, <2>b, <3>1 DEF DeviceTypes
    <3> QED BY <2>2, <2>3, <3>2, ConnFacts DEF BroadcastSnapshot
  <2>4. ASSUME NEW s \in Sessions, PublishData(s)
        PROVE  Follows(v)'
    <3>1. UNCHANGED <<vars, news>>
      BY <2>4 DEF PublishData, deviceVars
    <3>2. Quiet(u)
      BY <2>b, <3>1
    <3> QED BY <2>2, <2>4, <3>2 DEF PublishData
  <2>5. ASSUME NEW c \in Conns, Notify(c)
        PROVE  Follows(v)'
    <3>1. /\ UNCHANGED <<vars, vpc, watching, next, observing>>
          /\ news' = [news EXCEPT ![c] = "none"]
          /\ token'[v] = (token[v] \/ v \in Observers(UserOf(c)))
      BY <2>5 DEF Notify
    <3>2. CASE UserOf(c) = u /\ observing[v]
      <4>1. token'[v]
        BY <3>1, <3>2 DEF Observers, u
      <4> QED BY <4>1 DEF Follows, Pending
    <3>3. CASE UserOf(c) = u /\ ~observing[v]
      BY <3>1, <3>3 DEF Follows
    <3>4. CASE UserOf(c) # u
      <4>1. Quiet(u)
        BY <1>0, <2>b, <3>1, <3>4 DEF DeviceTypes
      <4> QED BY <2>a, <3>1, <4>1
    <3> QED BY <3>2, <3>3, <3>4
  <2>6. ASSUME NEW w \in Watchers, Watcher(w)
        PROVE  Follows(v)'
    <3>1. CASE w = v
      BY <1>0, <2>0, <2>6, <3>1, OwnFollows
    <3>2. CASE w # v
      <4>1. UNCHANGED <<vars, deviceVars>>
        BY <1>0, <2>6, OneWatcher
      <4>2. Quiet(u)
        BY <2>b, <4>1 DEF deviceVars
      <4> QED BY <1>0, <2>6, <2>a, <3>2, <4>2, OneWatcher
    <3> QED BY <3>1, <3>2
  <2>7. CASE UNCHANGED viewerVars
    <3>1. Quiet(u)
      BY <2>7, <2>b DEF viewerVars, deviceVars
    <3> QED BY <2>7, <2>a, <3>1 DEF viewerVars, watcherVars
  <2> QED BY <2>1, <2>3, <2>4, <2>5, <2>6, <2>7 DEF ViewersNext, Device, HubPart
<1> QED BY <1>1, <1>2, <1>3, <1>4 DEF FollowInv

LEMMA FollowInit == ViewersInit => FollowInv
<1> SUFFICES ASSUME ViewersInit
             PROVE  FollowInv
  OBVIOUS
<1>1. SlotOfOwner
  BY DEF ViewersInit, Init, SlotOfOwner
<1>2. \A v \in Watchers : Shape(v) /\ Follows(v)
  BY DEF ViewersInit, Shape, Follows
<1> QED BY <1>1, <1>2, ViewersTypeInit DEF FollowInv

\* A viewer that has no token to take, and whose account has none to send, has
\* looked up the monitor or watches it.
THEOREM ViewersInvariant == ViewersSpec => []FollowInv
BY FollowInit, FollowStep, PTL DEF ViewersSpec

\* Rooms, channels and handlers keep their types; a handler that is in Subscribe
\* has a room.
THEOREM ViewersTypes == ViewersSpec => []ViewersTypeOK
<1>1. FollowInv => ViewersTypeOK
  BY DEF FollowInv
<1> QED BY <1>1, ViewersInvariant, PTL

\* Once the handlers of the account have notified and the page has no token left,
\* it watches the account's active monitor, with overlapping handlers too.
THEOREM PageFollowsMonitor == ViewersSpec => []FollowsMonitor
<1>1. FollowInv => FollowsMonitor
  <2> SUFFICES ASSUME FollowInv, NEW v \in Watchers,
                      vpc[v] = "loop", ~token[v], Settled(AccountOf[v]),
                      MonitorActive(AccountOf[v])
               PROVE  watching[v] = activeMonitors[AccountOf[v]]
    BY DEF FollowsMonitor
  <2>1. Shape(v) /\ Follows(v)
    BY DEF FollowInv
  <2>2. watching[v] = activeMonitors[AccountOf[v]]
    BY <2>1 DEF Shape, Follows, Pending, MonitorIs
  <2> QED BY <2>2 DEF MonitorActive
<1> QED BY <1>1, ViewersInvariant, PTL

-----------------------------------------------------------------------------
(***************************************************************************)
(* A page sees the state of its room.                                      *)
(***************************************************************************)
\* A handler that runs or tells is the only one of its session; a device that
\* connects finds none.
LEMMA ApartStep ==
  ASSUME Overlap = FALSE, ViewersTypeOK, HandlersApart, NewsAreNew,
         [ViewersNext]_viewerVars
  PROVE  HandlersApart'
<1>0. TypeOK /\ DeviceTypes
  BY TypeParts
\* A step after which nobody is busy who was not before.
<1>a. ASSUME \A c \in Conns : pc'[c] # "closed" \/ news'[c] # "none" =>
                                pc[c] # "closed" \/ news[c] # "none"
      PROVE  HandlersApart'
  BY <1>a DEF HandlersApart
<1>1. ASSUME NEW c \in Conns, Connect(c)
      PROVE  HandlersApart'
  <2>1. \A d \in Conns : SessionOf[d] = SessionOf[c] => pc[d] = "closed" /\ news[d] = "none"
    BY <1>1 DEF Connect, SessionTold, AttachDevice, SessionIdle
  <2>2. \A d \in Conns : d # c => pc'[d] = pc[d] /\ news'[d] = news[d]
    BY <1>0, <1>1 DEF Connect, Tell, AttachDevice, TypeOK, DeviceTypes
  <2> QED BY <2>1, <2>2 DEF HandlersApart
<1>2. ASSUME NEW c \in Conns,
             \/ \E state \in ClientStates : ClientState(c, state)
             \/ Accepted(c) \/ Rejected(c) \/ Leave(c) \/ Released(c)
      PROVE  HandlersApart'
  <2>1. pc[c] # "closed"
    BY <1>2 DEF ClientState, Accepted, Rejected, Leave, Released, PublishClaim,
       PublishRejected, PublishState, StopRejected, DetachRoom, DetachClaim
  <2>2. \A d \in Conns : d # c => pc'[d] = pc[d] /\ news'[d] = news[d]
    BY <1>0, <1>2 DEF ClientState, Accepted, Rejected, Leave, Released, PublishClaim,
       PublishRejected, PublishState, StopRejected, DetachRoom, DetachClaim, Tell,
       deviceVars, TypeOK, DeviceTypes
  <2> QED BY <1>a, <2>1, <2>2
<1>3. ASSUME NEW c \in Conns, TakeSnapshot(c) \/ BroadcastSnapshot(c) \/ Notify(c)
      PROVE  HandlersApart'
  <2>1. UNCHANGED pc /\ news[c] # "none"
    BY <1>3 DEF TakeSnapshot, BroadcastSnapshot, Notify, vars
  <2>2. \A d \in Conns : d # c => news'[d] = news[d]
    BY <1>0, <1>3 DEF TakeSnapshot, BroadcastSnapshot, Notify, DeviceTypes
  <2> QED BY <1>a, <2>1, <2>2
<1>4. CASE UNCHANGED <<vars, deviceVars>>
  BY <1>4, <1>a DEF vars, deviceVars
<1>5. ASSUME NEW w \in Watchers, Watcher(w)
      PROVE  UNCHANGED <<vars, deviceVars>>
  BY <1>5, OneWatcher
<1> QED BY <1>1, <1>2, <1>3, <1>4, <1>5 DEF ViewersNext, Device, PublishData, viewerVars

\* A handler that goes on has told everything, and no other has anything to tell
\* of its session.
LEMMA HubPartTells ==
  ASSUME Overlap = FALSE, ViewersTypeOK, HandlersApart, NewsAreNew,
         NEW c \in Conns, HubPart(c)
  PROVE  /\ news[c] = "none" /\ news'[c] \in {"none", "snapshot"} /\ UNCHANGED taken
         /\ news'[c] = "snapshot" => pc'[c] \in {"serving", "closed"}
         /\ \A d \in Conns : d # c => /\ pc'[d] = pc[d] /\ news'[d] = news[d]
                                      /\ news[d] # "none" => SessionOf[d] # SessionOf[c]
         /\ \A s \in Sessions : version'[s] # version[s] =>
              s = SessionOf[c] /\ (news'[c] = "snapshot" \/ pc'[c] = "detaching")
         /\ pc[c] = "detaching" => news'[c] = "snapshot"
<1>0. TypeOK /\ DeviceTypes
  BY TypeParts
<1>1. CASE Connect(c)
  <2>1. \A d \in Conns : SessionOf[d] = SessionOf[c] => news[d] = "none"
    BY <1>1 DEF Connect, SessionTold
  <2> QED BY <1>0, <1>1, <2>1
          DEF Connect, Tell, Stored, AttachDevice, TypeOK, DeviceTypes
<1>2. CASE \/ \E state \in ClientStates : ClientState(c, state)
           \/ Accepted(c) \/ Rejected(c) \/ Leave(c) \/ Released(c)
  <2>1. /\ pc[c] \in {"serving", "claimed", "rejected", "detaching"}
        /\ pc[c] = "serving" => news[c] = "none"
    BY <1>2 DEF ClientState, Accepted, Rejected, Leave, Released, PublishClaim,
       PublishRejected, PublishState, StopRejected, DetachRoom, DetachClaim
  <2>2. news[c] = "none"
    BY <2>1 DEF NewsAreNew
  <2>3. \A d \in Conns : d # c /\ news[d] # "none" => SessionOf[d] # SessionOf[c]
    BY <2>1 DEF HandlersApart
  <2>4. CASE \/ \E state \in ClientStates : ClientState(c, state)
             \/ Rejected(c)
    <3>1. UNCHANGED deviceVars /\ pc[c] # "detaching"
      BY <2>4 DEF ClientState, Rejected, PublishClaim, PublishRejected, StopRejected
    <3>2. \A d \in Conns : d # c => pc'[d] = pc[d]
      BY <1>0, <2>4 DEF ClientState, Rejected, PublishClaim, PublishRejected,
         StopRejected, TypeOK
    <3> QED BY <2>2, <2>3, <3>1, <3>2 DEF deviceVars
  <2>5. CASE Accepted(c)
    BY <1>0, <2>2, <2>3, <2>5
       DEF Accepted, PublishState, Stored, Tell, TypeOK, DeviceTypes
  <2>6. CASE Leave(c)
    <3>1. CASE OwnRoom(c)
      BY <1>0, <2>2, <2>3, <2>6, <3>1
         DEF Leave, DetachRoom, Stored, TypeOK, DeviceTypes
    <3>2. CASE ~OwnRoom(c)
      BY <1>0, <2>2, <2>3, <2>6, <3>2
         DEF Leave, DetachRoom, Tell, TypeOK, DeviceTypes
    <3> QED BY <3>1, <3>2
  <2>7. CASE Released(c)
    BY <1>0, <2>2, <2>3, <2>7 DEF Released, DetachClaim, Tell, TypeOK, DeviceTypes
  <2> QED BY <1>2, <2>4, <2>5, <2>6, <2>7
<1> QED BY <1>1, <1>2 DEF HubPart

LEMMA NewsStep ==
  ASSUME Overlap = FALSE, ViewersTypeOK, HandlersApart, NewsAreNew,
         [ViewersNext]_viewerVars
  PROVE  NewsAreNew'
<1>0. TypeOK /\ DeviceTypes
  BY TypeParts
<1>1. ASSUME NEW c \in Conns, HubPart(c)
      PROVE  NewsAreNew'
  BY <1>1, HubPartTells, ConnFacts DEF NewsAreNew
<1>2. ASSUME NEW c \in Conns, TakeSnapshot(c)
      PROVE  NewsAreNew'
  <2>1. taken'[c] = version[SessionOf[c]] /\ UNCHANGED <<pc, version>> /\ news[c] # "none"
    BY <1>0, <1>2 DEF TakeSnapshot, vars, DeviceTypes
  <2>2. \A d \in Conns : d # c => news'[d] = news[d] /\ taken'[d] = taken[d]
    BY <1>0, <1>2 DEF TakeSnapshot, DeviceTypes
  <2> QED BY <2>1, <2>2 DEF NewsAreNew
<1>3. ASSUME NEW c \in Conns, BroadcastSnapshot(c) \/ Notify(c)
      PROVE  NewsAreNew'
  <2>1. UNCHANGED <<pc, version>> /\ news[c] # "none" /\ news'[c] \in {"none", "notify"}
    BY <1>0, <1>3 DEF BroadcastSnapshot, Notify, vars, DeviceTypes
  <2>2. \A d \in Conns : d # c => news'[d] = news[d] /\ taken'[d] = taken[d]
    BY <1>0, <1>3 DEF BroadcastSnapshot, Notify, DeviceTypes
  <2> QED BY <2>1, <2>2 DEF NewsAreNew
<1>4. CASE UNCHANGED <<vars, deviceVars>>
  BY <1>4 DEF vars, deviceVars, NewsAreNew
<1>5. ASSUME NEW w \in Watchers, Watcher(w)
      PROVE  UNCHANGED <<vars, deviceVars>>
  BY <1>5, OneWatcher
<1> QED BY <1>1, <1>2, <1>3, <1>4, <1>5
        DEF ViewersNext, Device, HubPart, PublishData, viewerVars

-----------------------------------------------------------------------------
\* What a snapshot does to a viewer of its room: it is in the channel, or what is
\* there in its place is marked.
LEMMA ReachedBySnapshot ==
  ASSUME NEW s \in Sessions, NEW n \in Versions,
         NEW front \in SUBSET Watchers, Broadcast(s, Snapshot(n), front),
         NEW v \in Watchers, watching[v] = s
  PROVE  /\ mailbox'[v] \notin {Empty, Data} \/ missed'[v]
         /\ mailbox'[v] # Empty
         /\ missed'[v] \/ Last(v)' = n
<1>1. v \in ViewersOf(s)
  BY DEF ViewersOf
<1>2. Snapshot(n) \notin {Empty, Data} /\ Snapshot(n)[1] = n
  BY MailFacts
<1>3. missed'[v] = (v \in front /\ Snapshot(n) # Snapshot(snapshot[v]))
  BY <1>1, <1>2 DEF Broadcast
<1>4. mailbox'[v] = Snapshot(n) \/ (v \in front /\ mailbox'[v] = Snapshot(snapshot[v]))
  BY <1>1 DEF Broadcast, Delivered
<1>5. \A k : Snapshot(k) # Empty
  BY DEF Snapshot, Empty
<1>6. CASE mailbox'[v] = Snapshot(n)
  BY <1>2, <1>6 DEF Last
<1>7. CASE mailbox'[v] # Snapshot(n)
  <2>1. missed'[v]
    BY <1>3, <1>4, <1>7
  <2> QED BY <1>4, <1>5, <1>7, <2>1
<1> QED BY <1>6, <1>7

\* What another message does to a viewer of its room: it displaces a snapshot and
\* says so, it leaves what the viewer knows, or it brings the snapshot that
\* Subscribe was waiting to send.
LEMMA ReachedByData ==
  ASSUME WatcherTypes, NEW s \in Sessions, NEW front \in SUBSET Watchers,
         Broadcast(s, Data, front), NEW v \in Watchers, watching[v] = s
  PROVE  /\ mailbox'[v] # Empty
         /\ \/ missed'[v]
            \/ /\ vpc'[v] = vpc[v] /\ Last(v)' = Last(v) /\ snapshot'[v] = snapshot[v]
               /\ mailbox[v] \in {Empty, Data} /\ ~missed[v]
            \/ /\ vpc[v] = "send" /\ vpc'[v] # "send"
               /\ mailbox[v] = Data /\ ~missed[v]
               /\ mailbox'[v] = Snapshot(snapshot[v])
         /\ vpc'[v] # vpc[v] => vpc'[v] # "send"
<1>1. v \in ViewersOf(s) /\ seen'[v] = seen[v]
  BY DEF ViewersOf, Broadcast
<1>2. Data # Empty /\ \A k : Snapshot(k) # Empty
  BY MailFacts DEF Snapshot, Empty
<1>3. missed'[v] \/ (~missed[v] /\ mailbox[v] \in {Empty, Data})
  BY <1>1 DEF Broadcast
<1>4. CASE v \in front
  <2>1. /\ mailbox'[v] = Snapshot(snapshot[v]) /\ mailbox[v] # Empty
        /\ vpc[v] = "send" /\ vpc'[v] \in {"loop", "observe"}
    BY <1>1, <1>4 DEF Broadcast, Delivered, WatcherTypes
  <2> QED BY <1>2, <1>3, <2>1
<1>5. CASE v \notin front
  <2>1. mailbox'[v] = Data /\ vpc'[v] = vpc[v] /\ snapshot'[v] = snapshot[v]
    BY <1>1, <1>5 DEF Broadcast, Delivered
  <2> QED BY <1>1, <1>2, <1>3, <2>1 DEF Last
<1> QED BY <1>4, <1>5

LEMMA NotReached ==
  ASSUME WatcherTypes, NEW s \in Sessions, NEW message,
         NEW front \in SUBSET Watchers, Broadcast(s, message, front),
         NEW v \in Watchers, watching[v] # s
  PROVE  /\ mailbox'[v] = mailbox[v] /\ missed'[v] = missed[v] /\ vpc'[v] = vpc[v]
         /\ snapshot'[v] = snapshot[v] /\ seen'[v] = seen[v]
<1>1. v \notin ViewersOf(s) /\ v \notin front
  BY DEF ViewersOf, Broadcast
<1> QED BY <1>1 DEF Broadcast, WatcherTypes

\* The viewer's own steps.
LEMMA OwnSees ==
  ASSUME ViewersTypeOK, NEW v \in Watchers, Shape(v), Sees(v), Watcher(v)
  PROVE  Sees(v)'
<1>0. UNCHANGED <<vars, deviceVars>> /\ WatcherTypes /\ DeviceTypes
  BY OneWatcher, TypeParts
<1>1. UNCHANGED version /\ \A s \in Sessions : Coming(s)' = Coming(s)
  BY <1>0 DEF Coming, vars, deviceVars
<1>2. /\ Data # Empty
      /\ \A k \in Versions : Snapshot(k) \notin {Empty, Data} /\ Snapshot(k)[1] = k
  BY MailFacts
<1> USE <1>0 DEF WatcherTypes
\* What the viewer knows stays as it is.
<1>a. ASSUME vpc[v] \in {"observe", "token", "loop", "slot", "room", "register"},
             vpc'[v] # "send", watching'[v] = watching[v], missed'[v] = missed[v],
             Last(v)' = Last(v)
      PROVE  Sees(v)'
  BY <1>1, <1>a DEF Sees
<1>b. ASSUME UNCHANGED <<mailbox, seen>>
      PROVE  Last(v)' = Last(v)
  BY <1>b DEF Last
<1>c. ASSUME watching'[v] = NoSession
      PROVE  Sees(v)'
  BY <1>c DEF Sees
<1>3. CASE LookUp(v)
  <2>1. CASE vpc[v] = "out"
    BY <1>3, <1>c, <2>1 DEF LookUp, Shape
  <2>2. CASE vpc[v] = "loop"
    BY <1>3, <1>a, <1>b, <2>2 DEF LookUp
  <2> QED BY <1>3, <2>1, <2>2 DEF LookUp
<1>4. CASE ReadSlot(v)
  BY <1>4, <1>a, <1>b DEF ReadSlot
<1>5. CASE ReadRoom(v)
  <2>1. vpc'[v] \in {"register", "out", "loop"}
    BY <1>5 DEF ReadRoom
  <2> QED BY <1>5, <1>a, <1>b, <2>1 DEF ReadRoom
<1>6. CASE Register(v)
  BY <1>6 DEF Register, Sees
<1>7. CASE ReadSnapshot(v)
  <2>1. /\ vpc'[v] = "send" /\ watching'[v] = watching[v]
        /\ snapshot'[v] = version[watching[v]]
    BY <1>7 DEF ReadSnapshot
  <2> QED BY <1>1, <2>1 DEF Sees
<1>8. CASE SendSnapshot(v)
  <2>1. /\ vpc[v] = "send" /\ mailbox[v] = Empty /\ vpc'[v] \in {"loop", "observe"}
        /\ watching'[v] = watching[v] /\ mailbox'[v] = Snapshot(snapshot[v])
    BY <1>8 DEF SendSnapshot
  <2>2. SUFFICES ASSUME watching[v] \in Sessions, ~Coming(watching[v])
                 PROVE  Last(v)' = version[watching[v]]
    BY <1>1, <2>1 DEF Sees
  <2>3. snapshot[v] = version[watching[v]] /\ version[watching[v]] \in Versions
    BY <2>1, <2>2, HubAssumption DEF Sees, DeviceTypes
  <2> QED BY <1>2, <2>1, <2>3 DEF Last
<1>9. CASE Observe(v)
  BY <1>9, <1>a, <1>b DEF Observe
<1>10. CASE FirstToken(v)
  BY <1>10, <1>a, <1>b DEF FirstToken
<1>11. CASE Forward(v)
  <2>1. /\ mailbox[v] # Empty /\ mailbox'[v] = Empty
        /\ seen'[v] = IF mailbox[v] = Data THEN seen[v] ELSE mailbox[v][1]
    BY <1>11 DEF Forward
  <2>2. Last(v)' = Last(v)
    BY <2>1 DEF Last
  <2> QED BY <1>11, <1>a, <2>2 DEF Forward
<1>12. CASE Close(v)
  BY <1>12, <1>c DEF Close
<1> QED BY <1>3, <1>4, <1>5, <1>6, <1>7, <1>8, <1>9, <1>10, <1>11, <1>12 DEF Watcher

LEMMA SeesStep ==
  ASSUME Overlap = FALSE, FollowInv, SightInv, [ViewersNext]_viewerVars,
         NEW v \in Watchers
  PROVE  Sees(v)'
<1>0. /\ ViewersTypeOK /\ TypeOK /\ DeviceTypes /\ WatcherTypes /\ Shape(v) /\ Sees(v)
      /\ HandlersApart /\ NewsAreNew
  BY TypeParts DEF FollowInv, SightInv
\* Nothing happens to the viewer, and a new state of its room is still to come.
<1>a. ASSUME vpc'[v] = vpc[v], watching'[v] = watching[v], snapshot'[v] = snapshot[v],
             mailbox'[v] = mailbox[v], seen'[v] = seen[v], missed'[v] = missed[v],
             watching[v] \in Sessions =>
               /\ Coming(watching[v]) => Coming(watching[v])'
               /\ \/ version'[watching[v]] = version[watching[v]]
                  \/ Coming(watching[v])'
      PROVE  Sees(v)'
  <2>1. Last(v)' = Last(v)
    BY <1>a DEF Last
  <2>2. CASE watching[v] = NoSession
    BY <1>a, <2>2 DEF Sees
  <2>3. CASE watching[v] \in Sessions
    BY <1>0, <1>a, <2>1, <2>3, HubAssumption DEF Sees
  <2> QED BY <1>0, <2>2, <2>3 DEF WatcherTypes
<1>1. ASSUME NEW c \in Conns, HubPart(c)
      PROVE  Sees(v)'
  <2>1. UNCHANGED watcherVars
    BY <1>0, <1>1, HubPartTypes
  <2>2. ASSUME NEW s \in Sessions
        PROVE  /\ Coming(s) => Coming(s)'
               /\ version'[s] = version[s] \/ Coming(s)'
    <3>1. /\ news[c] = "none"
          /\ \A d \in Conns : d # c => pc'[d] = pc[d] /\ news'[d] = news[d]
          /\ version'[s] # version[s] =>
               s = SessionOf[c] /\ (news'[c] = "snapshot" \/ pc'[c] = "detaching")
          /\ pc[c] = "detaching" => news'[c] = "snapshot"
      BY <1>0, <1>1, HubPartTells
    <3> QED BY <3>1 DEF Coming
  <2> QED BY <1>a, <2>1, <2>2 DEF watcherVars
<1>2. ASSUME NEW c \in Conns, TakeSnapshot(c)
      PROVE  Sees(v)'
  <2>1. UNCHANGED <<pc, version, watcherVars>> /\ news' = [news EXCEPT ![c] = "broadcast"]
    BY <1>2 DEF TakeSnapshot, vars
  <2>2. \A s \in Sessions : Coming(s) => Coming(s)'
    BY <1>0, <2>1 DEF Coming, DeviceTypes
  <2> QED BY <1>a, <2>1, <2>2 DEF watcherVars
<1>3. ASSUME NEW c \in Conns, BroadcastSnapshot(c)
      PROVE  Sees(v)'
  <2>1. /\ UNCHANGED <<pc, version>> /\ news[c] = "broadcast"
        /\ news' = [news EXCEPT ![c] = "notify"]
    BY <1>3 DEF BroadcastSnapshot, vars
  <2>2. PICK front \in SUBSET Watchers :
          Broadcast(SessionOf[c], Snapshot(taken[c]), front)
    BY <1>3 DEF BroadcastSnapshot
  <2>3. taken[c] = version[SessionOf[c]] /\ taken[c] \in Versions /\ SessionOf[c] \in Sessions
    BY <1>0, <2>1, ConnFacts DEF NewsAreNew, DeviceTypes
  <2>4. watching'[v] = watching[v]
    BY <2>2 DEF Broadcast
  <2>5. CASE watching[v] = SessionOf[c]
    <3>1. /\ mailbox'[v] # Empty /\ (missed'[v] \/ Last(v)' = taken[c])
          /\ mailbox'[v] # Data \/ missed'[v]
      BY <2>2, <2>3, <2>5, ReachedBySnapshot
    <3> QED BY <2>1, <2>3, <2>4, <2>5, <3>1 DEF Sees
  <2>6. CASE watching[v] # SessionOf[c]
    <3>1. Coming(watching[v]) => Coming(watching[v])'
      BY <1>0, <2>1, <2>4, <2>6 DEF Coming, DeviceTypes
    <3> QED BY <1>0, <1>a, <2>1, <2>2, <2>3, <2>4, <2>6, <3>1, NotReached
  <2> QED BY <2>5, <2>6
<1>4. ASSUME NEW s \in Sessions, PublishData(s)
      PROVE  Sees(v)'
  <2>1. UNCHANGED <<pc, version, news>>
    BY <1>4 DEF PublishData, vars, deviceVars
  <2>2. PICK front \in SUBSET Watchers : Broadcast(s, Data, front)
    BY <1>4 DEF PublishData
  <2>3. watching'[v] = watching[v] /\ (Coming(watching[v])' = Coming(watching[v]))
    BY <2>1, <2>2 DEF Broadcast, Coming
  <2>4. CASE watching[v] = s
    <3>1. mailbox'[v] # Empty /\ (vpc'[v] # vpc[v] => vpc'[v] # "send")
      BY <1>0, <2>2, <2>4, ReachedByData
    <3>2. CASE missed'[v]
      BY <3>1, <3>2 DEF Sees
    <3>3. CASE /\ vpc'[v] = vpc[v] /\ Last(v)' = Last(v) /\ snapshot'[v] = snapshot[v]
               /\ mailbox[v] \in {Empty, Data} /\ ~missed[v]
      BY <1>0, <2>1, <2>3, <3>1, <3>3 DEF Sees
    <3>4. CASE /\ vpc[v] = "send" /\ vpc'[v] # "send"
               /\ mailbox[v] = Data /\ ~missed[v]
               /\ mailbox'[v] = Snapshot(snapshot[v])
      <4>1. SUFFICES ASSUME ~Coming(watching[v])
                     PROVE  Last(v)' = version[watching[v]]
        BY <2>1, <2>3, <3>4 DEF Sees
      <4>2. snapshot[v] = version[watching[v]] /\ version[watching[v]] \in Versions
        BY <1>0, <2>4, <3>4, <4>1, HubAssumption DEF Sees, DeviceTypes
      <4>3. mailbox'[v] \notin {Empty, Data} /\ mailbox'[v][1] = snapshot[v]
        BY <3>4, <4>2, MailFacts
      <4> QED BY <4>2, <4>3 DEF Last
    <3> QED BY <1>0, <2>2, <2>4, <3>2, <3>3, <3>4, ReachedByData
  <2>5. CASE watching[v] # s
    BY <1>0, <1>a, <2>1, <2>2, <2>3, <2>5, NotReached
  <2> QED BY <2>4, <2>5
<1>5. ASSUME NEW c \in Conns, Notify(c)
      PROVE  Sees(v)'
  <2>1. /\ UNCHANGED <<pc, version, vpc, watching, snapshot, mailbox, seen, missed>>
        /\ news[c] = "notify" /\ news' = [news EXCEPT ![c] = "none"]
    BY <1>5 DEF Notify, vars
  <2>2. Coming(watching[v]) => Coming(watching[v])'
    BY <1>0, <2>1 DEF Coming, DeviceTypes
  <2> QED BY <1>a, <2>1, <2>2
<1>6. ASSUME NEW w \in Watchers, Watcher(w)
      PROVE  Sees(v)'
  <2>1. CASE w = v
    BY <1>0, <1>6, <2>1, OwnSees
  <2>2. CASE w # v
    <3>1. UNCHANGED <<vars, deviceVars>>
      BY <1>0, <1>6, OneWatcher
    <3>2. watching'[v] = watching[v]
      BY <1>0, <1>6, <2>2, OneWatcher
    <3>3. UNCHANGED version /\ Coming(watching[v])' = Coming(watching[v])
      BY <3>1, <3>2 DEF vars, deviceVars, Coming
    <3> QED BY <1>0, <1>6, <1>a, <2>2, <3>3, OneWatcher
  <2> QED BY <2>1, <2>2
<1>7. CASE UNCHANGED viewerVars
  <2>1. UNCHANGED <<version, watching, pc, news>>
    BY <1>7 DEF viewerVars, vars, deviceVars, watcherVars
  <2>2. Coming(watching[v])' = Coming(watching[v])
    BY <2>1 DEF Coming
  <2> QED BY <1>7, <1>a, <2>1, <2>2 DEF viewerVars, watcherVars
<1> QED BY <1>1, <1>2, <1>3, <1>4, <1>5, <1>6, <1>7 DEF ViewersNext, Device, HubPart

LEMMA SightInit == ViewersInit => SightInv
BY DEF ViewersInit, Init, SightInv, HandlersApart, NewsAreNew, Sees

LEMMA SightStep ==
  ASSUME Overlap = FALSE
  PROVE  FollowInv /\ SightInv /\ [ViewersNext]_viewerVars => SightInv'
<1> SUFFICES ASSUME FollowInv, SightInv, [ViewersNext]_viewerVars
             PROVE  SightInv'
  OBVIOUS
<1>1. HandlersApart'
  BY ApartStep DEF FollowInv, SightInv
<1>2. NewsAreNew'
  BY NewsStep DEF FollowInv, SightInv
<1>3. \A v \in Watchers : Sees(v)'
  BY SeesStep
<1> QED BY <1>1, <1>2, <1>3 DEF SightInv

\* Once the handlers of the account have notified, a page that has read its channel
\* shows the room as it is, unless a snapshot was displaced on its way; handlers of
\* one device do not overlap.
THEOREM PageSeesRoom == ASSUME Overlap = FALSE PROVE ViewersSpec => []SeesRoom
<1>1. FollowInv /\ SightInv => SeesRoom
  <2> SUFFICES ASSUME FollowInv, SightInv, NEW v \in Watchers, vpc[v] = "loop",
                      mailbox[v] = Empty, Settled(OwnerOf[watching[v]])
               PROVE  missed[v] \/ seen[v] = version[watching[v]]
    BY DEF SeesRoom
  <2>1. Shape(v) /\ Sees(v)
    BY DEF FollowInv, SightInv
  <2>2. watching[v] \in Sessions /\ watching[v] # NoSession
    BY <2>1, HubAssumption DEF Shape
  <2>3. ~Coming(watching[v])
    BY DEF Settled, Coming, UserOf
  <2> QED BY <2>1, <2>2, <2>3 DEF Sees, Last
<1> QED BY <1>1, FollowInit, FollowStep, SightInit, SightStep, PTL DEF ViewersSpec
=============================================================================
