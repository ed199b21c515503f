------------------------------ MODULE HubProofs ------------------------------
(***************************************************************************)
(* Theorems about Hub, and about Sessions on top of it, for every number   *)
(* of accounts, sessions and handlers.                                     *)
(*                                                                         *)
(* Of the hub's theorems, those about rooms hold with overlapping          *)
(* handlers; those about the monitor slot need that a device connects      *)
(* again only after its last handler returned (Overlap = FALSE): the run   *)
(* HubOverlapClaim shows that they fail without it.                        *)
(*                                                                         *)
(* Sessions has restarts, overlapping handlers and failing statements.     *)
(* Everything about the slot and the rows of an account is proved as long  *)
(* as that account is calm: no two handlers of one of its devices have     *)
(* overlapped, and none of its statements has failed.                      *)
(***************************************************************************)
EXTENDS Sessions, ActiveMonitor, TLAPS

-----------------------------------------------------------------------------
(***************************************************************************)
(* The hub.                                                                *)
(***************************************************************************)
\* Two running handlers never serve the same session.
HandlersApart ==
  \A c, d \in Conns :
    SessionOf[c] = SessionOf[d] /\ pc[c] # "closed" /\ pc[d] # "closed" => c = d

\* A running handler is the publisher of its room.
LiveIsPublisher ==
  \A c \in Conns : pc[c] \in Live => publisher[SessionOf[c]] = c

\* An accepted device owns the slot of its account.
AcceptedHoldsSlot ==
  \A c \in Conns :
    accepted[c] => /\ pc[c] \in {"serving", "claimed"}
                   /\ activeMonitors[UserOf(c)] = SessionOf[c]

\* Between the two sections of Publish the verdict is that of the payload;
\* after them the room of an accepted device is online.
VerdictStored ==
  \A c \in Conns :
    /\ pc[c] = "claimed" => (accepted[c] <=> Monitoring(sent[c]))
    /\ pc[c] = "serving" /\ accepted[c] => online[SessionOf[c]]

\* A slot is reserved for a session of its own account.
SlotOfOwner ==
  \A u \in Users : activeMonitors[u] # NoSession => OwnerOf[activeMonitors[u]] = u

\* The inductive invariant of the monitor slot.
HubInv ==
  /\ TypeOK
  /\ PublisherIsLive
  /\ HandlersApart
  /\ LiveIsPublisher
  /\ AcceptedHoldsSlot
  /\ VerdictStored
  /\ ClaimBacked
  /\ SlotOfOwner

-----------------------------------------------------------------------------
\* The derived flag of a payload is a Boolean.
LEMMA MonitoringType ==
  ASSUME NEW state \in ClientStates \cup {NoState}
  PROVE  Monitoring(state) \in BOOLEAN
BY DEF Monitoring, ClientStates, NoState

\* A handler serves a session of some account.
LEMMA SessionFacts ==
  ASSUME NEW c \in Conns
  PROVE  /\ SessionOf[c] \in Sessions /\ SessionOf[c] # NoSession
         /\ UserOf(c) \in Users /\ c # NoConn
BY HubAssumption DEF UserOf

\* Every state of the hub has the type of its Go structures.
LEMMA TypeInit == Init => TypeOK
BY HubAssumption DEF Init, TypeOK, Stages, ClientStates, NoState

LEMMA TypeStep == TypeOK /\ [Next]_vars => TypeOK'
<1> SUFFICES ASSUME TypeOK, [Next]_vars
             PROVE  TypeOK'
  OBVIOUS
<1> USE HubAssumption DEF TypeOK, Stages
<1>1. ASSUME NEW c \in Conns, AttachDevice(c)
      PROVE  TypeOK'
  <2>1. Monitoring(clientState[SessionOf[c]]) \in BOOLEAN
    BY MonitoringType
  <2> QED BY <1>1, <2>1 DEF AttachDevice
<1>2. ASSUME NEW c \in Conns, NEW state \in ClientStates,
             PublishClaim(c, state)
      PROVE  TypeOK'
  <2>1. Monitoring(state) \in BOOLEAN
    BY MonitoringType
  <2>2. ClaimAfter(c, state) \in [Users -> Sessions \cup {NoSession}]
    BY DEF ClaimAfter, UserOf
  <2> QED BY <1>2, <2>1, <2>2 DEF PublishClaim, roomVars
<1>3. ASSUME NEW c \in Conns, NEW state \in ClientStates,
             PublishRejected(c, state)
      PROVE  TypeOK'
  BY <1>3 DEF PublishRejected
<1>4. ASSUME NEW c \in Conns, PublishState(c)
      PROVE  TypeOK'
  <2>1. OnlineAfter(c) \in BOOLEAN
    BY MonitoringType DEF OnlineAfter
  <2> QED BY <1>4, <2>1 DEF PublishState
<1>5. ASSUME NEW c \in Conns, StopRejected(c)
      PROVE  TypeOK'
  BY <1>5 DEF StopRejected
<1>6. ASSUME NEW c \in Conns, DetachRoom(c)
      PROVE  TypeOK'
  BY <1>6 DEF DetachRoom, OwnRoom
<1>7. ASSUME NEW c \in Conns, DetachClaim(c)
      PROVE  TypeOK'
  BY <1>7 DEF DetachClaim, ReleaseAfter, UserOf
<1>8. CASE UNCHANGED vars
  BY <1>8 DEF vars
<1> QED BY <1>1, <1>2, <1>3, <1>4, <1>5, <1>6, <1>7, <1>8 DEF Next, Handler

\* The type invariant of the hub.
THEOREM HubTypeOK == Spec => []TypeOK
BY TypeInit, TypeStep, PTL DEF Spec

-----------------------------------------------------------------------------
\* A room is connected exactly while the handler that attached last runs, so
\* a late detach of an older handler never disconnects a newer one, with or
\* without overlapping handlers.
LEMMA PublisherStep == TypeOK /\ PublisherIsLive /\ [Next]_vars => PublisherIsLive'
<1> SUFFICES ASSUME TypeOK, PublisherIsLive, [Next]_vars,
                    NEW s \in Sessions
             PROVE  /\ connected'[s] <=> publisher'[s] # NoConn
                    /\ publisher'[s] # NoConn =>
                         /\ SessionOf[publisher'[s]] = s
                         /\ pc'[publisher'[s]] \in Live
  BY DEF PublisherIsLive
<1> USE HubAssumption DEF TypeOK, PublisherIsLive, Live
<1>1. ASSUME NEW c \in Conns, AttachDevice(c)
      PROVE  /\ connected'[s] <=> publisher'[s] # NoConn
             /\ publisher'[s] # NoConn =>
                  SessionOf[publisher'[s]] = s /\ pc'[publisher'[s]] \in Live
  BY <1>1 DEF AttachDevice
<1>2. ASSUME NEW c \in Conns, NEW state \in ClientStates,
             PublishClaim(c, state) \/ PublishRejected(c, state)
      PROVE  /\ connected'[s] <=> publisher'[s] # NoConn
             /\ publisher'[s] # NoConn =>
                  SessionOf[publisher'[s]] = s /\ pc'[publisher'[s]] \in Live
  BY <1>2 DEF PublishClaim, PublishRejected, roomVars
<1>3. ASSUME NEW c \in Conns, PublishState(c) \/ StopRejected(c)
      PROVE  /\ connected'[s] <=> publisher'[s] # NoConn
             /\ publisher'[s] # NoConn =>
                  SessionOf[publisher'[s]] = s /\ pc'[publisher'[s]] \in Live
  BY <1>3 DEF PublishState, StopRejected
<1>4. ASSUME NEW c \in Conns, DetachRoom(c)
      PROVE  /\ connected'[s] <=> publisher'[s] # NoConn
             /\ publisher'[s] # NoConn =>
                  SessionOf[publisher'[s]] = s /\ pc'[publisher'[s]] \in Live
  BY <1>4 DEF DetachRoom, OwnRoom
<1>5. ASSUME NEW c \in Conns, DetachClaim(c)
      PROVE  /\ connected'[s] <=> publisher'[s] # NoConn
             /\ publisher'[s] # NoConn =>
                  SessionOf[publisher'[s]] = s /\ pc'[publisher'[s]] \in Live
  BY <1>5 DEF DetachClaim
<1>6. CASE UNCHANGED vars
  BY <1>6 DEF vars
<1> QED BY <1>1, <1>2, <1>3, <1>4, <1>5, <1>6 DEF Next, Handler

\* The room is the newest connection's, however late an older one detaches.
THEOREM RoomOwnership == Spec => []PublisherIsLive
<1>1. Init => PublisherIsLive
  BY DEF Init, PublisherIsLive
<1> QED BY <1>1, HubTypeOK, PublisherStep, PTL DEF Spec

\* Only the detach of the publisher itself clears a room (detach closure).
THEOREM DetachIsOwn == Spec => OnlyPublisherDisconnects
<1>1. TypeOK /\ PublisherIsLive /\ [Next]_vars =>
        \A s \in Sessions :
          connected[s] /\ ~connected'[s] => pc'[publisher[s]] \notin Live
  BY HubAssumption
  DEF Live, TypeOK, PublisherIsLive, Next, Handler, AttachDevice, PublishClaim,
      PublishRejected, PublishState, StopRejected, DetachRoom, OwnRoom, DetachClaim,
      roomVars, vars
<1> QED BY <1>1, HubTypeOK, RoomOwnership, PTL DEF Spec, OnlyPublisherDisconnects

-----------------------------------------------------------------------------
\* The monitor slot, when handlers of one session do not overlap.

LEMMA HubInvInit == Init => HubInv
<1> SUFFICES ASSUME Init
             PROVE  HubInv
  OBVIOUS
<1>1. TypeOK /\ PublisherIsLive
  BY TypeInit DEF Init, PublisherIsLive
<1>2. HandlersApart /\ LiveIsPublisher /\ AcceptedHoldsSlot /\ VerdictStored
  BY DEF Init, HandlersApart, LiveIsPublisher, AcceptedHoldsSlot,
         VerdictStored, Live
<1>3. ClaimBacked /\ SlotOfOwner
  BY HubAssumption DEF Init, ClaimBacked, SlotOfOwner
<1> QED BY <1>1, <1>2, <1>3 DEF HubInv

LEMMA AttachKeepsInv ==
  ASSUME Overlap = FALSE, HubInv, NEW c \in Conns, AttachDevice(c)
  PROVE  /\ HandlersApart' /\ LiveIsPublisher' /\ AcceptedHoldsSlot'
         /\ VerdictStored' /\ ClaimBacked'
<1> USE HubAssumption DEF HubInv, TypeOK, AttachDevice, SessionIdle
<1>1. HandlersApart'
  BY DEF HandlersApart
<1>2. LiveIsPublisher'
  BY DEF LiveIsPublisher, Live
<1>3. AcceptedHoldsSlot' /\ VerdictStored'
  BY DEF AcceptedHoldsSlot, VerdictStored, UserOf
<1>4. ClaimBacked'
  BY DEF ClaimBacked
<1> QED BY <1>1, <1>2, <1>3, <1>4

LEMMA ClaimKeepsInv ==
  ASSUME HubInv, NEW c \in Conns, NEW state \in ClientStates,
         PublishClaim(c, state)
  PROVE  /\ HandlersApart' /\ LiveIsPublisher' /\ AcceptedHoldsSlot'
         /\ VerdictStored' /\ ClaimBacked'
<1> USE HubAssumption DEF HubInv, TypeOK, PublishClaim, roomVars
<1>1. Monitoring(state) \in BOOLEAN
  BY MonitoringType
<1>2. HandlersApart'
  BY DEF HandlersApart
<1>3. LiveIsPublisher'
  BY DEF LiveIsPublisher, Live
<1>4. \A d \in Conns : d # c /\ accepted[d] => SessionOf[d] # SessionOf[c]
  BY DEF AcceptedHoldsSlot, HandlersApart
<1>5. AcceptedHoldsSlot'
  <2> SUFFICES ASSUME NEW d \in Conns, accepted'[d]
               PROVE  /\ pc'[d] \in {"serving", "claimed"}
                      /\ activeMonitors'[UserOf(d)] = SessionOf[d]
    BY DEF AcceptedHoldsSlot, UserOf
  <2>1. CASE d = c
    BY <1>1, <2>1 DEF ClaimAfter, UserOf
  <2>2. CASE d # c
    <3>1. /\ accepted[d] /\ SessionOf[d] # SessionOf[c]
          /\ pc'[d] \in {"serving", "claimed"}
          /\ activeMonitors[UserOf(d)] = SessionOf[d]
      BY <1>4, <2>2 DEF AcceptedHoldsSlot
    <3>2. CASE UserOf(d) = UserOf(c)
      <4>3. activeMonitors[UserOf(c)] = SessionOf[d]
        BY <3>1, <3>2, Zenon
      <4>4. SessionOf[d] # NoSession
        BY SessionFacts, Zenon
      <4>1. SlotTakenFor(c)
        BY <3>1, <4>3, <4>4, Zenon DEF SlotTakenFor
      <4>2. activeMonitors' = activeMonitors
        BY <3>1, <3>2, <4>1 DEF ClaimAfter
      <4> QED BY <3>1, <4>2
    <3>3. CASE UserOf(d) # UserOf(c)
      BY <3>1, <3>3 DEF ClaimAfter, UserOf
    <3> QED BY <3>1, <3>2, <3>3
  <2> QED BY <2>1, <2>2
<1>6. VerdictStored'
  BY <1>1 DEF VerdictStored
<1>7. ClaimBacked'
  <2>1. ASSUME NEW s \in Sessions, activeMonitors'[OwnerOf[s]] = s
        PROVE  \E d \in Conns :
                 SessionOf[d] = s /\ (accepted'[d] \/ pc'[d] = "detaching")
    <3>1. CASE s = SessionOf[c]
      BY <1>1, <2>1, <3>1 DEF ClaimAfter, UserOf
    <3>2. CASE s # SessionOf[c]
      <4>1. activeMonitors[OwnerOf[s]] = s
        BY <2>1, <3>2 DEF ClaimAfter, UserOf
      <4>2. PICK d \in Conns :
              SessionOf[d] = s /\ (accepted[d] \/ pc[d] = "detaching")
        BY <4>1 DEF ClaimBacked
      <4> QED BY <3>2, <4>2
    <3> QED BY <3>1, <3>2
  <2> QED BY <2>1 DEF ClaimBacked
<1> QED BY <1>2, <1>3, <1>5, <1>6, <1>7

LEMMA RejectKeepsInv ==
  ASSUME HubInv, NEW c \in Conns, NEW state \in ClientStates,
         PublishRejected(c, state)
  PROVE  /\ HandlersApart' /\ LiveIsPublisher' /\ AcceptedHoldsSlot'
         /\ VerdictStored' /\ ClaimBacked'
<1> USE HubAssumption DEF HubInv, TypeOK, PublishRejected
<1>1. HandlersApart' /\ LiveIsPublisher'
  BY DEF HandlersApart, LiveIsPublisher, Live
<1>2. AcceptedHoldsSlot' /\ VerdictStored'
  BY DEF AcceptedHoldsSlot, VerdictStored, UserOf
<1>3. ~accepted[c]
  BY DEF AcceptedHoldsSlot, SlotTakenFor
<1>4. ClaimBacked'
  BY <1>3 DEF ClaimBacked
<1> QED BY <1>1, <1>2, <1>4

LEMMA StateKeepsInv ==
  ASSUME HubInv, NEW c \in Conns, PublishState(c)
  PROVE  /\ HandlersApart' /\ LiveIsPublisher' /\ AcceptedHoldsSlot'
         /\ VerdictStored' /\ ClaimBacked'
<1> USE HubAssumption DEF HubInv, TypeOK, PublishState
<1>1. HandlersApart' /\ LiveIsPublisher'
  BY DEF HandlersApart, LiveIsPublisher, Live
<1>2. AcceptedHoldsSlot'
  BY DEF AcceptedHoldsSlot, UserOf
<1>3. VerdictStored'
  <2>1. Monitoring(sent[c]) \in BOOLEAN
    BY MonitoringType
  <2>2. \A d \in Conns : accepted[d] /\ d # c => SessionOf[d] # SessionOf[c]
    BY DEF AcceptedHoldsSlot, HandlersApart
  <2> QED BY <2>1, <2>2 DEF VerdictStored, OnlineAfter
<1>4. ClaimBacked'
  BY DEF ClaimBacked
<1> QED BY <1>1, <1>2, <1>3, <1>4

LEMMA StopKeepsInv ==
  ASSUME HubInv, NEW c \in Conns, StopRejected(c)
  PROVE  /\ HandlersApart' /\ LiveIsPublisher' /\ AcceptedHoldsSlot'
         /\ VerdictStored' /\ ClaimBacked'
<1> USE HubAssumption DEF HubInv, TypeOK, StopRejected
<1>1. HandlersApart' /\ LiveIsPublisher'
  BY DEF HandlersApart, LiveIsPublisher, Live
<1>2. AcceptedHoldsSlot' /\ VerdictStored'
  BY DEF AcceptedHoldsSlot, VerdictStored, UserOf
<1>3. ClaimBacked'
  BY DEF ClaimBacked
<1> QED BY <1>1, <1>2, <1>3

LEMMA DetachRoomKeepsInv ==
  ASSUME HubInv, NEW c \in Conns, DetachRoom(c)
  PROVE  /\ HandlersApart' /\ LiveIsPublisher' /\ AcceptedHoldsSlot'
         /\ VerdictStored' /\ ClaimBacked'
<1> USE HubAssumption DEF HubInv, TypeOK
<1>1. publisher[SessionOf[c]] = c
  BY DEF LiveIsPublisher, Live, DetachRoom, OwnRoom
<1>2. /\ pc[c] = "serving"
      /\ pc' = [pc EXCEPT ![c] = "detaching"]
      /\ publisher' = [publisher EXCEPT ![SessionOf[c]] = NoConn]
      /\ online' = [online EXCEPT ![SessionOf[c]] = FALSE]
      /\ accepted' = [accepted EXCEPT ![c] = FALSE]
      /\ UNCHANGED <<activeMonitors, sent>>
  BY <1>1 DEF DetachRoom, OwnRoom
<1>3. \A d \in Conns : pc[d] # "closed" /\ d # c => SessionOf[d] # SessionOf[c]
  BY <1>2 DEF HandlersApart
<1>4. HandlersApart'
  BY <1>2 DEF HandlersApart
<1>5. LiveIsPublisher'
  BY <1>2, <1>3 DEF LiveIsPublisher, Live
<1>6. AcceptedHoldsSlot'
  BY <1>2 DEF AcceptedHoldsSlot, UserOf
<1>7. VerdictStored'
  BY <1>2, <1>3 DEF VerdictStored
<1>8. ClaimBacked'
  BY <1>2 DEF ClaimBacked
<1> QED BY <1>4, <1>5, <1>6, <1>7, <1>8

LEMMA DetachClaimKeepsInv ==
  ASSUME HubInv, NEW c \in Conns, DetachClaim(c)
  PROVE  /\ HandlersApart' /\ LiveIsPublisher' /\ AcceptedHoldsSlot'
         /\ VerdictStored' /\ ClaimBacked'
<1> USE HubAssumption DEF HubInv, TypeOK, DetachClaim, ReleaseAfter
<1>1. \A d \in Conns : accepted[d] => SessionOf[d] # SessionOf[c]
  BY DEF AcceptedHoldsSlot, HandlersApart
<1>2. HandlersApart' /\ LiveIsPublisher'
  BY DEF HandlersApart, LiveIsPublisher, Live
<1>3. AcceptedHoldsSlot'
  BY <1>1 DEF AcceptedHoldsSlot, UserOf
<1>4. VerdictStored'
  BY DEF VerdictStored
<1>5. ClaimBacked'
  <2>1. ASSUME NEW s \in Sessions, activeMonitors'[OwnerOf[s]] = s
        PROVE  s # SessionOf[c] /\ activeMonitors[OwnerOf[s]] = s
    BY <2>1 DEF UserOf
  <2> QED BY <2>1 DEF ClaimBacked
<1> QED BY <1>2, <1>3, <1>4, <1>5

LEMMA SlotOwnerStep == HubInv /\ [Next]_vars => SlotOfOwner'
BY HubAssumption
DEF HubInv, TypeOK, SlotOfOwner, Next, Handler, AttachDevice, PublishClaim,
    ClaimAfter, PublishRejected, PublishState, StopRejected, DetachRoom, OwnRoom,
    DetachClaim, ReleaseAfter, UserOf, vars

LEMMA HubInvStep == Overlap = FALSE /\ HubInv /\ [Next]_vars => HubInv'
<1> SUFFICES ASSUME Overlap = FALSE, HubInv, [Next]_vars
             PROVE  HubInv'
  OBVIOUS
<1>1. TypeOK' /\ PublisherIsLive'
  BY TypeStep, PublisherStep DEF HubInv
<1>3. SlotOfOwner'
  BY SlotOwnerStep
<1>2. /\ HandlersApart' /\ LiveIsPublisher' /\ AcceptedHoldsSlot'
      /\ VerdictStored' /\ ClaimBacked'
  <2>1. CASE Next
    BY <2>1, AttachKeepsInv, ClaimKeepsInv, RejectKeepsInv, StateKeepsInv,
       StopKeepsInv, DetachRoomKeepsInv, DetachClaimKeepsInv DEF Next, Handler
  <2>2. CASE UNCHANGED vars
    BY <2>2 DEF vars, HubInv, HandlersApart, LiveIsPublisher,
                AcceptedHoldsSlot, VerdictStored, ClaimBacked, UserOf
  <2> QED BY <2>1, <2>2
<1> QED BY <1>1, <1>2, <1>3 DEF HubInv

\* The inductive invariant of the monitor slot: who is accepted owns the slot, and a
\* reserved slot is backed by a handler (Publish and detach).
THEOREM HubInvariant == ASSUME Overlap = FALSE PROVE Spec => []HubInv
<1>1. HubInv /\ [Next]_vars => HubInv'
  BY HubInvStep
<1> QED BY <1>1, HubInvInit, PTL DEF Spec

\* While handlers of one session do not overlap, two devices of one account
\* are never both told they may monitor (updateMonitorClaim).
THEOREM MonitorMutex == ASSUME Overlap = FALSE PROVE Spec => []SingleMonitor
<1>1. HubInv => SingleMonitor
  BY HubAssumption
  DEF HubInv, SingleMonitor, MayMonitor, AcceptedHoldsSlot, HandlersApart,
      LiveIsPublisher, Live, UserOf
<1> QED BY <1>1, HubInvariant, PTL

\* No reservation outlives the device it was made for (Publish, detach).
THEOREM NoOrphanClaim == ASSUME Overlap = FALSE PROVE Spec => []ClaimBacked
<1>1. HubInv => ClaimBacked
  BY DEF HubInv
<1> QED BY <1>1, HubInvariant, PTL

-----------------------------------------------------------------------------
\* The readers of the slot, beside the hub.

\* A call between its two sections has read a session of the account.
ReaderInv ==
  \A r \in Readers :
    stage[r] = "room" => named[r] \in Sessions /\ OwnerOf[named[r]] = AskedFor[r]

ReadersType == stage \in [Readers -> {"idle", "slot", "room"}]
               /\ named \in [Readers -> Sessions \cup {NoSession}]

LEMMA ReaderInit == LookupInit => ReadersType /\ ReaderInv
BY DEF LookupInit, ReadersType, ReaderInv

LEMMA ReaderStep ==
  ASSUME HubInv, ReadersType, ReaderInv, [LookupNext]_lookupVars
  PROVE  ReadersType' /\ ReaderInv'
<1> USE HubAssumption, ActiveMonitorAssumption DEF ReadersType, ReaderInv
<1>1. CASE UNCHANGED readerVars
  BY <1>1 DEF readerVars
<1>2. ASSUME NEW r \in Readers, Ask(r)
      PROVE  ReadersType' /\ ReaderInv'
  BY <1>2 DEF Ask
<1>3. ASSUME NEW r \in Readers, ReadSlot(r)
      PROVE  ReadersType' /\ ReaderInv'
  BY <1>3 DEF ReadSlot, HubInv, TypeOK, SlotOfOwner
<1>4. ASSUME NEW r \in Readers, ReadRoom(r)
      PROVE  ReadersType' /\ ReaderInv'
  BY <1>4 DEF ReadRoom
<1> QED BY <1>1, <1>2, <1>3, <1>4 DEF LookupNext, lookupVars

\* Readers leave the hub's invariant alone, and a call of ActiveMonitorSession
\* between its sections has read a session of its account.
THEOREM LookupInvariant ==
  ASSUME Overlap = FALSE PROVE LookupSpec => [](HubInv /\ ReadersType /\ ReaderInv)
<1>1. LookupInit => HubInv /\ ReadersType /\ ReaderInv
  BY HubInvInit, ReaderInit DEF LookupInit
<1>2. HubInv /\ ReadersType /\ ReaderInv /\ [LookupNext]_lookupVars
        => (HubInv /\ ReadersType /\ ReaderInv)'
  <2> SUFFICES ASSUME HubInv, ReadersType, ReaderInv, [LookupNext]_lookupVars
               PROVE  (HubInv /\ ReadersType /\ ReaderInv)'
    OBVIOUS
  <2>1. [Next]_vars
    BY DEF LookupNext, lookupVars, Ask, ReadSlot, ReadRoom
  <2> QED BY <2>1, HubInvStep, ReaderStep
<1> QED BY <1>1, <1>2, PTL DEF LookupSpec

\* An owner of the slot whose room is connected was accepted: the only other
\* backing, a handler that is leaving, has cleared the room.
LEMMA ConnectedOwner ==
  ASSUME HubInv, NEW s \in Sessions, activeMonitors[OwnerOf[s]] = s, connected[s]
  PROVE  \E d \in Conns : SessionOf[d] = s /\ accepted[d]
<1> USE HubAssumption DEF HubInv, TypeOK
<1>1. PICK d \in Conns : SessionOf[d] = s /\ (accepted[d] \/ pc[d] = "detaching")
  BY DEF ClaimBacked
<1>2. /\ publisher[s] \in Conns /\ SessionOf[publisher[s]] = s
      /\ pc[publisher[s]] \in Live
  BY DEF PublisherIsLive
<1>3. pc[d] # "detaching"
  BY <1>1, <1>2 DEF HandlersApart, Live
<1> QED BY <1>1, <1>3

\* A handler that was accepted and has stored its state owns the slot, and its
\* room is connected and online.
LEMMA AcceptedIsActive ==
  ASSUME HubInv, NEW c \in Conns, accepted[c], pc[c] = "serving"
  PROVE  /\ activeMonitors[UserOf(c)] = SessionOf[c]
         /\ connected[SessionOf[c]] = TRUE /\ online[SessionOf[c]] = TRUE
<1> USE HubAssumption DEF HubInv, TypeOK
<1>1. activeMonitors[UserOf(c)] = SessionOf[c]
  BY DEF AcceptedHoldsSlot
<1>2. connected[SessionOf[c]] = TRUE
  BY DEF LiveIsPublisher, PublisherIsLive, Live
<1>3. online[SessionOf[c]] = TRUE
  BY DEF VerdictStored
<1> QED BY <1>1, <1>2, <1>3

\* A result of ActiveMonitorSession whose session still owns the slot is exact:
\* active for an accepted device only, and never silent about one.
THEOREM ActiveMonitorCorrect ==
  ASSUME Overlap = FALSE PROVE LookupSpec => AnswerExact
<1>1. HubInv /\ ReadersType /\ ReaderInv /\ [LookupNext]_lookupVars =>
        \A r \in Readers :
          Returns(r) /\ Result(r)[1] = activeMonitors[AskedFor[r]] =>
            /\ Result(r)[2] =>
                 \E c \in Conns : SessionOf[c] = Result(r)[1] /\ accepted[c]
            /\ \A c \in Conns :
                 UserOf(c) = AskedFor[r] /\ accepted[c] /\ pc[c] = "serving"
                   => Result(r) = <<SessionOf[c], TRUE>>
  <2> SUFFICES ASSUME HubInv, ReadersType, ReaderInv, [LookupNext]_lookupVars,
                      NEW r \in Readers, Returns(r),
                      Result(r)[1] = activeMonitors[AskedFor[r]]
               PROVE  /\ Result(r)[2] =>
                           \E c \in Conns : SessionOf[c] = Result(r)[1] /\ accepted[c]
                      /\ \A c \in Conns :
                           UserOf(c) = AskedFor[r] /\ accepted[c] /\ pc[c] = "serving"
                             => Result(r) = <<SessionOf[c], TRUE>>
    OBVIOUS
  <2>1. ASSUME Result(r)[2]
        PROVE  \E c \in Conns : SessionOf[c] = Result(r)[1] /\ accepted[c]
    <3>1. /\ stage[r] = "room" /\ Result(r)[1] = named[r]
          /\ connected[named[r]]
      BY <2>1 DEF Result
    <3>2. named[r] \in Sessions /\ activeMonitors[OwnerOf[named[r]]] = named[r]
      BY <3>1 DEF ReaderInv
    <3> QED BY <3>1, <3>2, ConnectedOwner
  <2>2. ASSUME NEW c \in Conns, UserOf(c) = AskedFor[r], accepted[c], pc[c] = "serving"
        PROVE  Result(r) = <<SessionOf[c], TRUE>>
    <3>1. /\ activeMonitors[UserOf(c)] = SessionOf[c]
          /\ connected[SessionOf[c]] = TRUE /\ online[SessionOf[c]] = TRUE
      BY <2>2, AcceptedIsActive
    <3>2. Result(r)[1] = SessionOf[c] /\ SessionOf[c] # NoSession
      BY <2>2, <3>1, SessionFacts
    <3>3. stage[r] = "room" /\ named[r] = SessionOf[c]
      BY <3>2 DEF Result
    <3>4. (connected[named[r]] /\ online[named[r]]) = TRUE
      BY <3>1, <3>3
    <3> QED BY <3>3, <3>4 DEF Result
  <2> QED BY <2>1, <2>2
<1> QED BY <1>1, LookupInvariant, PTL DEF LookupSpec, AnswerExact

\* A device is rejected only for another device of its account that was
\* accepted or is just leaving (Publish).
THEOREM RejectionsJustified ==
  ASSUME Overlap = FALSE PROVE Spec => RejectionJustified
<1>1. HubInv /\ [Next]_vars =>
        \A c \in Conns :
          pc[c] # "rejected" /\ pc'[c] = "rejected" =>
            \E d \in Conns :
              /\ UserOf(d) = UserOf(c) /\ SessionOf[d] # SessionOf[c]
              /\ accepted[d] \/ pc[d] = "detaching"
  <2> SUFFICES ASSUME HubInv, [Next]_vars, NEW c \in Conns,
                      pc[c] # "rejected", pc'[c] = "rejected"
               PROVE  \E d \in Conns :
                        /\ UserOf(d) = UserOf(c) /\ SessionOf[d] # SessionOf[c]
                        /\ accepted[d] \/ pc[d] = "detaching"
    OBVIOUS
  <2> USE HubAssumption DEF HubInv, TypeOK
  <2>1. SlotTakenFor(c)
    BY DEF Next, Handler, AttachDevice, PublishClaim, PublishRejected,
           PublishState, StopRejected, DetachRoom, OwnRoom, DetachClaim, vars
  <2>2. PICK s \in Sessions : s = activeMonitors[UserOf(c)] /\ s # SessionOf[c]
    BY <2>1 DEF SlotTakenFor, UserOf
  <2>3. OwnerOf[s] = UserOf(c)
    BY <2>2 DEF SlotOfOwner, UserOf
  <2>4. PICK d \in Conns :
          SessionOf[d] = s /\ (accepted[d] \/ pc[d] = "detaching")
    BY <2>2, <2>3 DEF ClaimBacked
  <2> QED BY <2>2, <2>3, <2>4 DEF UserOf
<1> QED BY <1>1, HubInvariant, PTL DEF Spec, RejectionJustified

-----------------------------------------------------------------------------
\* The hub implements the monitor slot.

\* The sessions of accepted handlers: the value of Slot's variable monitors.
Monitors == {SessionOf[c] : c \in {d \in Conns : accepted[d]}}

\* An accepted handler joins the monitors, a handler that is not leaves them.
LEMMA MonitorsChange ==
  ASSUME HubInv, NEW c \in Conns, NEW b \in BOOLEAN,
         pc[c] # "closed", accepted' = [accepted EXCEPT ![c] = b]
  PROVE  Monitors' = IF b THEN Monitors \cup {SessionOf[c]}
                          ELSE Monitors \ {SessionOf[c]}
<1> USE HubAssumption DEF HubInv, TypeOK, Monitors
<1>1. \A d \in Conns : d # c /\ accepted[d] => SessionOf[d] # SessionOf[c]
  BY DEF AcceptedHoldsSlot, HandlersApart
<1>2. \A d \in Conns : accepted'[d] = IF d = c THEN b ELSE accepted[d]
  OBVIOUS
<1>3. CASE b
  BY <1>2, <1>3
<1>4. CASE ~b
  BY <1>1, <1>2, <1>4
<1> QED BY <1>3, <1>4

LEMMA SlotStep ==
  HubInv /\ [Next]_vars => [Slot!SlotNext]_<<activeMonitors, Monitors>>
<1> SUFFICES ASSUME HubInv, [Next]_vars
             PROVE  Slot!SlotNext \/ UNCHANGED <<activeMonitors, Monitors>>
  OBVIOUS
<1> USE HubAssumption DEF HubInv, TypeOK
<1>1. ASSUME NEW c \in Conns, AttachDevice(c) \/ PublishState(c) \/ StopRejected(c)
      PROVE  UNCHANGED <<activeMonitors, Monitors>>
  BY <1>1 DEF AttachDevice, PublishState, StopRejected, Monitors
<1>2. ASSUME NEW c \in Conns, NEW state \in ClientStates,
             PublishClaim(c, state)
      PROVE  Slot!SlotNext \/ UNCHANGED <<activeMonitors, Monitors>>
  <2>1. Monitors' = IF Monitoring(state) THEN Monitors \cup {SessionOf[c]}
                                         ELSE Monitors \ {SessionOf[c]}
    <3>1. Monitoring(state) \in BOOLEAN
      BY MonitoringType
    <3> QED BY <1>2, <3>1, MonitorsChange DEF PublishClaim
  <2>2. activeMonitors' = ClaimAfter(c, state)
    BY <1>2 DEF PublishClaim
  <2>3. CASE Monitoring(state)
    <3>1. Slot!Acquire(SessionOf[c])
      BY <1>2, <2>1, <2>2, <2>3
      DEF Slot!Acquire, PublishClaim, SlotTakenFor, ClaimAfter, UserOf, Monitors
    <3> QED BY <3>1, SessionFacts DEF Slot!SlotNext
  <2>4. CASE ~Monitoring(state) /\ activeMonitors[UserOf(c)] = SessionOf[c]
    <3>1. Slot!Free(SessionOf[c])
      BY <2>1, <2>2, <2>4 DEF Slot!Free, ClaimAfter, UserOf, Monitors
    <3> QED BY <3>1, SessionFacts DEF Slot!SlotNext
  <2>5. CASE ~Monitoring(state) /\ activeMonitors[UserOf(c)] # SessionOf[c]
    <3>1. SessionOf[c] \notin Monitors
      BY <2>5 DEF AcceptedHoldsSlot, Monitors, UserOf
    <3> QED BY <2>1, <2>2, <2>5, <3>1 DEF ClaimAfter
  <2> QED BY <2>3, <2>4, <2>5
<1>3. ASSUME NEW c \in Conns, NEW state \in ClientStates,
             PublishRejected(c, state)
      PROVE  UNCHANGED <<activeMonitors, Monitors>>
  <2>1. ~accepted[c]
    BY <1>3 DEF AcceptedHoldsSlot, PublishRejected, SlotTakenFor
  <2>2. accepted' = accepted
    BY <1>3, <2>1 DEF PublishRejected
  <2> QED BY <1>3, <2>2 DEF PublishRejected, Monitors
<1>4. ASSUME NEW c \in Conns, DetachRoom(c)
      PROVE  Slot!SlotNext \/ UNCHANGED <<activeMonitors, Monitors>>
  <2>1. Monitors' = Monitors \ {SessionOf[c]} /\ UNCHANGED activeMonitors
    BY <1>4, MonitorsChange DEF DetachRoom, OwnRoom
  <2>2. CASE SessionOf[c] \in Monitors
    <3>1. Slot!Retire(SessionOf[c])
      BY <2>1, <2>2 DEF Slot!Retire, Monitors
    <3> QED BY <3>1, SessionFacts DEF Slot!SlotNext
  <2> QED BY <2>1, <2>2
<1>5. ASSUME NEW c \in Conns, DetachClaim(c)
      PROVE  Slot!SlotNext \/ UNCHANGED <<activeMonitors, Monitors>>
  <2>1. SessionOf[c] \notin Monitors
    BY <1>5 DEF DetachClaim, AcceptedHoldsSlot, HandlersApart, Monitors
  <2>2. UNCHANGED Monitors
    BY <1>5 DEF DetachClaim, Monitors
  <2>3. CASE activeMonitors[UserOf(c)] = SessionOf[c]
    <3>1. Slot!Free(SessionOf[c])
      BY <1>5, <2>1, <2>2, <2>3 DEF Slot!Free, DetachClaim, ReleaseAfter, UserOf, Monitors
    <3> QED BY <3>1, SessionFacts DEF Slot!SlotNext
  <2> QED BY <1>5, <2>2, <2>3 DEF DetachClaim, ReleaseAfter
<1>6. CASE UNCHANGED vars
  BY <1>6 DEF vars, Monitors
<1> QED BY <1>1, <1>2, <1>3, <1>4, <1>5, <1>6 DEF Next, Handler

\* Every step of the hub is a step of the monitor slot or leaves it alone.
THEOREM HubRefinesSlot == ASSUME Overlap = FALSE PROVE Spec => SlotRefinement
<1>1. Init => Slot!SlotInit
  BY HubAssumption DEF Init, Slot!SlotInit
<1>2. HubInv /\ [Next]_vars => [Slot!SlotNext]_Slot!slotVars
  BY SlotStep DEF Slot!slotVars, Monitors
<1> QED BY <1>1, <1>2, HubInvariant, PTL DEF Spec, SlotRefinement, Slot!SlotSpec

-----------------------------------------------------------------------------
(***************************************************************************)
(* The device handlers and their rows.                                     *)
(***************************************************************************)
Calm(c) == ~disturbed[UserOf(c)]

\* HandlersApart and AcceptedHoldsSlot, for calm accounts.
CalmApart ==
  \A c, d \in Conns :
    Calm(c) /\ SessionOf[c] = SessionOf[d] /\ pc[c] # "closed" /\ pc[d] # "closed" => c = d

CalmHoldsSlot ==
  \A c \in Conns :
    Calm(c) /\ accepted[c] =>
      pc[c] \in {"serving", "claimed"} /\ activeMonitors[UserOf(c)] = SessionOf[c]

\* What the handler has still to write belongs to a Publish that is over, and a
\* running monitor is written only for a device that was accepted.
TaskOfPublish ==
  \A c \in Conns :
    /\ pc[c] = "claimed" => (accepted[c] <=> Monitoring(sent[c]))
    /\ task[c] # "free" => pc[c] = "serving"
    /\ task[c] # "free" /\ Monitoring(toWrite[c]) => accepted[c]

\* An accepted monitor that has cleared the rows of the others finds them clear
\* when it writes its own.
OthersClear ==
  \A c \in Conns, s \in Sessions :
    Calm(c) /\ task[c] = "record" /\ Monitoring(toWrite[c])
      /\ s # SessionOf[c] /\ OwnerOf[s] = UserOf(c)
        => ~Monitoring(row[s])

\* A device that is not accepted is not online once it stored a state, and its
\* row is no running monitor once it was heard and its row was written.
HeardIsTold ==
  \A c \in Conns :
    Calm(c) /\ ~accepted[c] =>
      /\ heard[c] = "stored" /\ pc[c] \in {"serving", "rejected"}
           => ~online[SessionOf[c]]
      /\ heard[c] # "nothing" /\ pc[c] = "serving" /\ task[c] = "free"
           => ~Monitoring(row[SessionOf[c]])

SlotPart == SessionsTypeOK /\ CalmApart /\ CalmHoldsSlot /\ TaskOfPublish
SessionsInv ==
  SlotPart /\ PublisherIsLive /\ OthersClear /\ OneMonitorRow /\ HeardIsTold

-----------------------------------------------------------------------------
LEMMA RowsType ==
  /\ NoState \in ClientStates \cup {NoState}
  /\ RejectedState \in ClientStates \cup {NoState}
  /\ ~Monitoring(NoState) /\ ~Monitoring(RejectedState)
BY HubAssumption DEF RejectedState, ClientStates, NoState, Monitoring

\* Stopping a row keeps its mode.
LEMMA StoppedRow ==
  ASSUME NEW r \in ClientStates \cup {NoState}
  PROVE  /\ [r EXCEPT !.running = FALSE] \in ClientStates \cup {NoState}
         /\ ~Monitoring([r EXCEPT !.running = FALSE])
<1>1. CASE r \in ClientStates
  BY <1>1 DEF ClientStates, Monitoring
<1>2. CASE r = NoState
  <2>1. [NoState EXCEPT !.running = FALSE] = NoState
    <3>1. NoState.running = FALSE /\ "running" \in DOMAIN NoState
      BY DEF NoState
    <3>2. NoState = [f \in DOMAIN NoState |-> NoState[f]]
      BY DEF NoState
    <3>3. [NoState EXCEPT !.running = FALSE]
            = [f \in DOMAIN NoState |-> IF f = "running" THEN FALSE ELSE NoState[f]]
      OBVIOUS
    <3> QED BY <3>1, <3>2, <3>3
  <2> QED BY <1>2, <2>1 DEF NoState, Monitoring
<1> QED BY <1>1, <1>2

\* The hub's part of a step of a handler.
LEMMA HubPart ==
  ASSUME NEW c \in Conns, Device(c)
  PROVE  [Next]_vars
BY DEF Device, Connect, ClientState, Accepted, Rejected, ClearOthers, Record, Leave,
   Released, Next, Handler

\* What a step of a handler does to the row of a session: nothing new can be
\* monitoring but its own session, which the handler writes.
LEMMA RowPart ==
  ASSUME SessionsTypeOK, NEW c \in Conns, Device(c)
  PROVE  /\ row' \in [Sessions -> ClientStates \cup {NoState}]
         /\ \A s \in Sessions : Monitoring(row'[s]) =>
              \/ Monitoring(row[s])
              \/ s = SessionOf[c] /\ task[c] = "record" /\ Monitoring(toWrite[c])
         /\ UNCHANGED row \/ ClearOthers(c) \/ Record(c)
<1> USE HubAssumption DEF SessionsTypeOK
<1>1. CASE UNCHANGED row
  BY <1>1
<1>2. CASE ClearOthers(c) /\ row' = OthersCleared(c)
  <2>1. ASSUME NEW s \in Sessions
        PROVE  row'[s] \in ClientStates \cup {NoState} /\ (Monitoring(row'[s]) => Monitoring(row[s]))
    <3>1. row'[s] = row[s] \/ row'[s] = [row[s] EXCEPT !.running = FALSE]
      BY <1>2 DEF OthersCleared
    <3>2. row[s] \in ClientStates \cup {NoState}
      OBVIOUS
    <3> QED BY <3>1, <3>2, StoppedRow
  <2>2. row' \in [Sessions -> ClientStates \cup {NoState}]
    <3>1. row' = [s \in Sessions |-> row'[s]]
      BY <1>2 DEF OthersCleared
    <3> QED BY <2>1, <3>1
  <2> QED BY <1>2, <2>1, <2>2
<1>3. CASE Record(c) /\ row' = [row EXCEPT ![SessionOf[c]] = toWrite[c]]
  BY <1>3 DEF Record
<1>4. \/ UNCHANGED row
      \/ ClearOthers(c) /\ row' = OthersCleared(c)
      \/ Record(c) /\ row' = [row EXCEPT ![SessionOf[c]] = toWrite[c]]
  BY DEF Device, Connect, ClientState, Accepted, Rejected, ClearOthers, Record, Leave,
     Released, StatementFails, rowVars
<1> QED BY <1>1, <1>2, <1>3, <1>4

\* A handler works on its own variables, its own room and its own account.
LEMMA Frame ==
  ASSUME SessionsTypeOK, NEW c \in Conns, Device(c)
  PROVE  /\ \A d \in Conns \ {c} :
              /\ pc'[d] = pc[d] /\ accepted'[d] = accepted[d] /\ sent'[d] = sent[d]
              /\ task'[d] = task[d] /\ toWrite'[d] = toWrite[d] /\ heard'[d] = heard[d]
         /\ \A s \in Sessions \ {SessionOf[c]} : online'[s] = online[s]
         /\ \A u \in Users \ {UserOf(c)} : activeMonitors'[u] = activeMonitors[u]
         /\ \A u \in Users : disturbed[u] => disturbed'[u]
<1> USE HubAssumption, SessionFacts DEF SessionsTypeOK, TypeOK
<1>1. CASE Connect(c)
  BY <1>1 DEF Connect, AttachDevice
<1>2. ASSUME NEW state \in ClientStates, ClientState(c, state)
      PROVE  /\ \A d \in Conns \ {c} :
                  /\ pc'[d] = pc[d] /\ accepted'[d] = accepted[d] /\ sent'[d] = sent[d]
                  /\ task'[d] = task[d] /\ toWrite'[d] = toWrite[d] /\ heard'[d] = heard[d]
             /\ \A s \in Sessions \ {SessionOf[c]} : online'[s] = online[s]
             /\ \A u \in Users \ {UserOf(c)} : activeMonitors'[u] = activeMonitors[u]
             /\ \A u \in Users : disturbed[u] => disturbed'[u]
  BY <1>2 DEF ClientState, PublishClaim, PublishRejected, ClaimAfter, rowVars, roomVars
<1>3. CASE Accepted(c)
  BY <1>3 DEF Accepted, PublishState
<1>4. CASE Rejected(c)
  BY <1>4 DEF Rejected, StopRejected
<1>5. CASE ClearOthers(c) \/ Record(c)
  BY <1>5 DEF ClearOthers, Record, StatementFails, vars
<1>6. CASE Leave(c)
  BY <1>6 DEF Leave, DetachRoom
<1>7. CASE Released(c)
  BY <1>7 DEF Released, DetachClaim, ReleaseAfter, rowVars
<1> QED BY <1>1, <1>2, <1>3, <1>4, <1>5, <1>6, <1>7 DEF Device

LEMMA SessionsTypeStep ==
  ASSUME SessionsTypeOK, [SessionsNext]_sessionVars
  PROVE  SessionsTypeOK'
<1> USE HubAssumption, RowsType DEF SessionsTypeOK, Tasks
<1>1. ASSUME NEW c \in Conns, Device(c)
      PROVE  SessionsTypeOK'
  <2>1. TypeOK'
    BY <1>1, HubPart, TypeStep
  <2>2. row' \in [Sessions -> ClientStates \cup {NoState}]
    BY <1>1, RowPart
  <2>3. /\ task' \in [Conns -> Tasks]
        /\ toWrite' \in [Conns -> ClientStates \cup {NoState}]
    <3>1. sent[c] \in ClientStates \cup {NoState}
      BY DEF TypeOK
    <3> QED BY <1>1, <3>1 DEF Device, Connect, ClientState, Accepted, Rejected, ClearOthers,
               Record, Leave, Released, rowVars
  <2>4. heard' \in [Conns -> Verdicts]
    BY <1>1 DEF Device, Connect, ClientState, Accepted, Rejected, ClearOthers,
               Record, Leave, Released, rowVars, Verdicts
  <2>5. disturbed' \in [Users -> BOOLEAN]
    <3>1. CASE Connect(c)
      <4>1. UserOf(c) \in Users /\ (disturbed[UserOf(c)] \/ ~SessionIdle(c)) \in BOOLEAN
        BY SessionFacts DEF SessionIdle
      <4> QED BY <3>1, <4>1 DEF Connect
    <3>2. CASE ~Connect(c)
      BY <1>1, <3>2 DEF Device, ClientState, Accepted, Rejected, ClearOthers,
               Record, StatementFails, Leave, Released, rowVars
    <3> QED BY <3>1, <3>2
  <2> QED BY <2>1, <2>2, <2>3, <2>4, <2>5
<1>2. ASSUME NEW s \in Sessions, ResetRow(s)
      PROVE  SessionsTypeOK'
  <2>1. TypeOK'
    BY <1>2 DEF ResetRow, vars, TypeOK
  <2>2. [row[s] EXCEPT !.running = FALSE] \in ClientStates \cup {NoState}
    BY StoppedRow
  <2>3. row' = [row EXCEPT ![s] = [row[s] EXCEPT !.running = FALSE]]
    BY <1>2 DEF ResetRow
  <2> QED BY <1>2, <2>1, <2>2, <2>3 DEF ResetRow
<1>3. CASE Restart
  <2>1. TypeOK'
    BY <1>3 DEF Restart, TypeOK, Stages
  <2> QED BY <1>3, <2>1 DEF Restart, Verdicts
<1>4. CASE UNCHANGED sessionVars
  <2>1. TypeOK'
    BY <1>4 DEF sessionVars, vars, TypeOK
  <2> QED BY <1>4, <2>1 DEF sessionVars, rowVars
<1> QED BY <1>1, <1>2, <1>3, <1>4 DEF SessionsNext

-----------------------------------------------------------------------------
\* The slot of a calm account.
LEMMA CalmApartStep ==
  ASSUME SessionsTypeOK, CalmApart, NEW c \in Conns, Device(c)
  PROVE  CalmApart'
<1> SUFFICES ASSUME NEW d \in Conns, NEW e \in Conns, Calm(d)', SessionOf[d] = SessionOf[e],
                    pc'[d] # "closed", pc'[e] # "closed"
             PROVE  d = e
  BY DEF CalmApart
<1>1. Calm(d) /\ Calm(e)
  BY Frame, SessionFacts DEF Calm, UserOf
<1>2. ASSUME pc[c] = "closed", NEW x \in Conns, x # c, SessionOf[x] = SessionOf[c],
             pc'[x] # "closed", Calm(c)', pc'[c] # "closed"
      PROVE  FALSE
  <2>1. Connect(c)
    BY <1>2 DEF Device, ClientState, PublishClaim, PublishRejected, Accepted, PublishState,
         Rejected, StopRejected, ClearOthers, Record, Leave, DetachRoom, Released, DetachClaim,
         vars
  <2>2. SessionIdle(c)
    BY <1>2, <2>1, SessionFacts DEF Connect, Calm, SessionsTypeOK
  <2>3. pc'[x] = pc[x]
    BY <1>2, Frame
  <2> QED BY <1>2, <2>2, <2>3 DEF SessionIdle
<1>3. Calm(e)'
  BY DEF Calm, UserOf
<1>4. CASE pc[d] # "closed" /\ pc[e] # "closed"
  BY <1>1, <1>4 DEF CalmApart
<1>5. CASE pc[d] = "closed"
  <2>1. d = c
    BY <1>5, Frame
  <2> QED BY <1>2, <1>5, <2>1
<1>6. CASE pc[e] = "closed"
  <2>1. e = c
    BY <1>6, Frame
  <2> QED BY <1>2, <1>3, <1>6, <2>1
<1> QED BY <1>4, <1>5, <1>6

LEMMA CalmHoldsStep ==
  ASSUME SlotPart, NEW c \in Conns, Device(c)
  PROVE  CalmHoldsSlot'
<1> USE HubAssumption DEF SlotPart, SessionsTypeOK, TypeOK
<1> SUFFICES ASSUME NEW d \in Conns, Calm(d)', accepted'[d]
             PROVE  /\ pc'[d] \in {"serving", "claimed"}
                    /\ activeMonitors'[UserOf(d)] = SessionOf[d]
  BY DEF CalmHoldsSlot, UserOf
<1>1. Calm(d) /\ UserOf(d) \in Users /\ SessionOf[d] # NoSession
  BY Frame, SessionFacts DEF Calm
<1>2. CASE d # c
  <2>1. /\ accepted[d] /\ pc'[d] = pc[d] /\ pc[d] \in {"serving", "claimed"}
        /\ activeMonitors[UserOf(d)] = SessionOf[d]
    BY <1>1, <1>2, Frame DEF CalmHoldsSlot
  <2>2. CASE UserOf(d) # UserOf(c)
    BY <1>1, <2>1, <2>2, Frame
  <2>3. CASE UserOf(d) = UserOf(c)
    <3>1. pc[c] # "closed" => SessionOf[c] # SessionOf[d]
      BY <1>1, <1>2, <2>1 DEF CalmApart
    <3>2. ASSUME NEW state \in ClientStates, PublishClaim(c, state)
          PROVE  activeMonitors' = activeMonitors
      <4>1. pc[c] = "serving"
        BY <3>2 DEF PublishClaim
      <4>2. activeMonitors[UserOf(c)] = SessionOf[d]
        BY <2>1, <2>3, Zenon
      <4>3. SlotTakenFor(c)
        BY <1>1, <3>1, <4>1, <4>2, Zenon DEF SlotTakenFor
      <4>4. ~Monitoring(state)
        BY <3>2, <4>3 DEF PublishClaim
      <4> QED BY <3>1, <3>2, <4>1, <4>2, <4>4 DEF PublishClaim, ClaimAfter
    <3>3. ASSUME DetachClaim(c)
          PROVE  activeMonitors' = activeMonitors
      <4>1. pc[c] = "detaching" /\ activeMonitors[UserOf(c)] = SessionOf[d]
        BY <2>1, <2>3, <3>3 DEF DetachClaim
      <4> QED BY <3>1, <3>3, <4>1 DEF DetachClaim, ReleaseAfter
    <3>4. activeMonitors' = activeMonitors
      BY <3>2, <3>3 DEF Device, Connect, AttachDevice, ClientState, PublishRejected, Accepted,
         PublishState, Rejected, StopRejected, ClearOthers, Record, Leave, DetachRoom, Released,
         vars
    <3> QED BY <2>1, <3>4
  <2> QED BY <2>2, <2>3
<1>3. CASE d = c
  <2>1. accepted[c] => /\ pc[c] \in {"serving", "claimed"}
                       /\ activeMonitors[UserOf(c)] = SessionOf[c]
    BY <1>1, <1>3 DEF CalmHoldsSlot
  <2>2. CASE Connect(c)
    BY <1>3, <2>1, <2>2 DEF Connect, AttachDevice
  <2>3. ASSUME NEW state \in ClientStates, PublishClaim(c, state)
        PROVE  pc'[c] \in {"serving", "claimed"} /\ activeMonitors'[UserOf(c)] = SessionOf[c]
    <3>1. Monitoring(state)
      BY <1>3, <2>3 DEF PublishClaim
    <3> QED BY <1>1, <1>3, <2>3, <3>1 DEF PublishClaim, ClaimAfter
  <2>4. ASSUME NEW state \in ClientStates, PublishRejected(c, state)
        PROVE  FALSE
    BY <1>3, <2>4 DEF PublishRejected
  <2>5. CASE PublishState(c)
    BY <1>3, <2>1, <2>5 DEF PublishState
  <2>6. CASE StopRejected(c)
    BY <1>3, <2>1, <2>6 DEF StopRejected
  <2>7. CASE DetachRoom(c)
    BY <1>3, <2>7 DEF DetachRoom
  <2>8. CASE DetachClaim(c)
    BY <1>3, <2>1, <2>8 DEF DetachClaim
  <2>9. CASE UNCHANGED vars
    BY <1>3, <2>1, <2>9 DEF vars
  <2> QED BY <1>3, <2>2, <2>3, <2>4, <2>5, <2>6, <2>7, <2>8, <2>9
          DEF Device, ClientState, Accepted, Rejected, ClearOthers, Record, Leave, Released
<1> QED BY <1>2, <1>3

LEMMA TaskStep ==
  ASSUME SlotPart, NEW c \in Conns, Device(c)
  PROVE  TaskOfPublish'
<1> USE HubAssumption DEF SlotPart, SessionsTypeOK, TypeOK
<1> SUFFICES ASSUME NEW d \in Conns
             PROVE  /\ pc'[d] = "claimed" => (accepted'[d] <=> Monitoring(sent'[d]))
                    /\ task'[d] # "free" => pc'[d] = "serving"
                    /\ task'[d] # "free" /\ Monitoring(toWrite'[d]) => accepted'[d]
  BY DEF TaskOfPublish, Monitoring
<1>0. /\ pc[d] = "claimed" => (accepted[d] <=> Monitoring(sent[d]))
      /\ task[d] # "free" => pc[d] = "serving"
      /\ task[d] # "free" /\ Monitoring(toWrite[d]) => accepted[d]
  BY DEF TaskOfPublish
<1>1. CASE d # c
  <2>1. /\ pc'[d] = pc[d] /\ accepted'[d] = accepted[d] /\ sent'[d] = sent[d]
        /\ task'[d] = task[d] /\ toWrite'[d] = toWrite[d]
    BY <1>1, Frame
  <2> QED BY <1>0, <2>1
<1>2. CASE d = c
  <2>1. CASE Connect(c)
    BY <1>0, <1>2, <2>1 DEF Connect, AttachDevice
  <2>2. ASSUME NEW state \in ClientStates, ClientState(c, state)
        PROVE  /\ pc'[c] = "claimed" => (accepted'[c] <=> Monitoring(sent'[c]))
               /\ task'[c] = "free"
    <3>1. Monitoring(state) \in BOOLEAN
      BY MonitoringType
    <3> QED BY <2>2, <3>1 DEF ClientState, PublishClaim, PublishRejected, rowVars
  <2>3. CASE Accepted(c)
    BY <1>0, <1>2, <2>3 DEF Accepted, PublishState
  <2>4. CASE Rejected(c)
    BY <1>0, <1>2, <2>4, RowsType DEF Rejected, StopRejected
  <2>5. CASE ClearOthers(c)
    BY <1>0, <1>2, <2>5 DEF ClearOthers, vars
  <2>6. CASE Record(c)
    BY <1>0, <1>2, <2>6 DEF Record, vars
  <2>7. CASE Leave(c)
    BY <1>0, <1>2, <2>7 DEF Leave, DetachRoom
  <2>8. CASE Released(c)
    BY <1>0, <1>2, <2>8 DEF Released, DetachClaim, rowVars
  <2> QED BY <1>2, <2>1, <2>2, <2>3, <2>4, <2>5, <2>6, <2>7, <2>8 DEF Device
<1> QED BY <1>1, <1>2

-----------------------------------------------------------------------------
\* Two accepted devices of one calm account are one.
LEMMA OneAccepted ==
  ASSUME SlotPart, NEW c \in Conns, NEW d \in Conns, UserOf(c) = UserOf(d), Calm(c),
         accepted[c], accepted[d]
  PROVE  c = d
<1>1. SessionOf[c] = SessionOf[d]
  BY DEF SlotPart, CalmHoldsSlot, Calm
<1>2. pc[c] # "closed" /\ pc[d] # "closed"
  BY DEF SlotPart, CalmHoldsSlot, Calm
<1> QED BY <1>1, <1>2 DEF SlotPart, CalmApart

\* The rows of a calm account.
LEMMA OthersClearStep ==
  ASSUME SlotPart, OthersClear, NEW c \in Conns, Device(c)
  PROVE  OthersClear'
<1> USE HubAssumption DEF SlotPart, SessionsTypeOK
<1> SUFFICES ASSUME NEW d \in Conns, NEW s \in Sessions, Calm(d)', task'[d] = "record",
                    Monitoring(toWrite'[d]), s # SessionOf[d], OwnerOf[s] = UserOf(d),
                    Monitoring(row'[s])
             PROVE  FALSE
  BY DEF OthersClear, UserOf
<1>1. Calm(d) /\ UserOf(d) \in Users
  BY Frame, SessionFacts DEF Calm
<1>2. CASE d # c
  <2>1. task[d] = "record" /\ Monitoring(toWrite[d])
    BY <1>2, Frame
  <2>2. ~Monitoring(row[s]) /\ accepted[d]
    BY <1>1, <2>1 DEF OthersClear, TaskOfPublish
  <2>3. s = SessionOf[c] /\ task[c] = "record" /\ Monitoring(toWrite[c])
    BY <2>2, RowPart
  <2>4. accepted[c] /\ UserOf(c) = UserOf(d)
    BY <2>3 DEF TaskOfPublish, UserOf
  <2> QED BY <1>1, <1>2, <2>2, <2>4, OneAccepted
<1>3. CASE d = c
  <2>1. CASE task[c] = "record"
    <3>1. \/ task'[c] = "record" /\ UNCHANGED <<row, toWrite>>
          \/ task'[c] = "free"
          \/ task'[c] = "record" /\ Rejected(c)
          \/ Accepted(c)
      BY <1>3, <2>1 DEF Device, Connect, ClientState, ClearOthers, Record, Leave, Released, rowVars
    <3>2. CASE task'[c] = "record" /\ UNCHANGED <<row, toWrite>>
      BY <1>1, <1>3, <2>1, <3>2 DEF OthersClear
    <3>3. CASE Rejected(c)
      BY <1>3, <2>1, <3>3, RowsType DEF Rejected, TaskOfPublish, StopRejected
    <3>4. CASE Accepted(c)
      BY <1>3, <2>1, <3>4 DEF Accepted, TaskOfPublish, PublishState
    <3> QED BY <1>3, <3>1, <3>2, <3>3, <3>4
  <2>2. CASE ClearOthers(c)
    <3>1. row' = OthersCleared(c)
      BY <1>3, <2>2, SessionFacts DEF ClearOthers, StatementFails, Calm
    <3>2. row'[s] = IF Monitoring(row[s]) THEN [row[s] EXCEPT !.running = FALSE] ELSE row[s]
      BY <1>3, <3>1 DEF OthersCleared
    <3>3. row[s] \in ClientStates \cup {NoState}
      OBVIOUS
    <3> QED BY <3>2, <3>3, StoppedRow
  <2>3. CASE Accepted(c) \/ Rejected(c)
    BY <1>3, <2>3, RowsType DEF Accepted, Rejected
  <2>4. CASE ~ClearOthers(c) /\ ~Accepted(c) /\ ~Rejected(c) /\ task[c] # "record"
    BY <1>3, <2>4 DEF Device, Connect, ClientState, Record, Leave, Released, rowVars
  <2> QED BY <2>1, <2>2, <2>3, <2>4
<1> QED BY <1>2, <1>3

LEMMA OneRowStep ==
  ASSUME SlotPart, OthersClear, OneMonitorRow, NEW c \in Conns, Device(c)
  PROVE  OneMonitorRow'
<1> USE HubAssumption DEF SlotPart
<1> SUFFICES ASSUME NEW s \in Sessions, NEW t \in Sessions, Monitoring(row'[s]),
                    Monitoring(row'[t]), OwnerOf[s] = OwnerOf[t], ~disturbed'[OwnerOf[s]], s # t
             PROVE  FALSE
  BY DEF OneMonitorRow
<1>1. ~disturbed[OwnerOf[s]]
  <2>1. OwnerOf[s] \in Users
    OBVIOUS
  <2> QED BY <2>1, Frame
<1>2. ~(Monitoring(row[s]) /\ Monitoring(row[t]))
  BY <1>1 DEF OneMonitorRow
<1>3. ASSUME NEW x \in Sessions, NEW y \in Sessions, x # y, OwnerOf[x] = OwnerOf[y],
             ~disturbed[OwnerOf[x]], Monitoring(row'[x]), ~Monitoring(row[x]),
             Monitoring(row'[y])
      PROVE  FALSE
  <2>1. x = SessionOf[c] /\ task[c] = "record" /\ Monitoring(toWrite[c])
    BY <1>3, RowPart
  <2>2. ~Monitoring(row[y])
    BY <1>3, <2>1 DEF OthersClear, Calm, UserOf
  <2> QED BY <1>3, <2>1, <2>2, RowPart
<1> QED BY <1>1, <1>2, <1>3

LEMMA HeardStep ==
  ASSUME SlotPart, HeardIsTold, NEW c \in Conns, Device(c)
  PROVE  HeardIsTold'
<1> USE HubAssumption DEF SlotPart, SessionsTypeOK, TypeOK
<1> SUFFICES ASSUME NEW d \in Conns, Calm(d)', ~accepted'[d]
             PROVE  /\ heard'[d] = "stored" /\ pc'[d] \in {"serving", "rejected"}
                         => ~online'[SessionOf[d]]
                    /\ heard'[d] # "nothing" /\ pc'[d] = "serving" /\ task'[d] = "free"
                         => ~Monitoring(row'[SessionOf[d]])
  BY DEF HeardIsTold, UserOf
<1>1. Calm(d) /\ UserOf(d) \in Users
  BY Frame, SessionFacts DEF Calm
<1>2. ~accepted[d] =>
        /\ heard[d] = "stored" /\ pc[d] \in {"serving", "rejected"}
             => ~online[SessionOf[d]]
        /\ heard[d] # "nothing" /\ pc[d] = "serving" /\ task[d] = "free"
             => ~Monitoring(row[SessionOf[d]])
  BY <1>1 DEF HeardIsTold
<1>3. CASE d # c
  <2>1. /\ pc'[d] = pc[d] /\ accepted'[d] = accepted[d] /\ task'[d] = task[d]
        /\ heard'[d] = heard[d]
    BY <1>3, Frame
  <2>2. CASE SessionOf[d] # SessionOf[c]
    <3>1. online'[SessionOf[d]] = online[SessionOf[d]]
      BY <2>2, Frame
    <3>2. Monitoring(row'[SessionOf[d]]) => Monitoring(row[SessionOf[d]])
      BY <2>2, RowPart
    <3> QED BY <1>2, <2>1, <3>1, <3>2
  <2>3. CASE SessionOf[d] = SessionOf[c]
    <3>1. CalmApart'
      BY CalmApartStep
    <3>2. CASE pc[d] = "closed"
      BY <2>1, <3>2
    <3>3. CASE pc[d] # "closed"
      <4>1. pc'[c] = "closed" /\ pc[c] = "closed"
        BY <1>1, <1>3, <2>1, <2>3, <3>1, <3>3 DEF CalmApart
      <4>2. FALSE
        BY <4>1 DEF Device, Connect, AttachDevice, ClientState, PublishClaim, PublishRejected,
           Accepted, PublishState, Rejected, StopRejected, ClearOthers, Record, Leave,
           DetachRoom, Released, DetachClaim, TaskOfPublish
      <4> QED BY <4>2
    <3> QED BY <3>2, <3>3
  <2> QED BY <2>2, <2>3
<1>4. CASE d = c
  <2>1. CASE Connect(c)
    BY <1>4, <2>1 DEF Connect
  <2>2. ASSUME NEW state \in ClientStates, PublishClaim(c, state)
        PROVE  pc'[c] = "claimed"
    BY <2>2 DEF PublishClaim
  <2>3. ASSUME NEW state \in ClientStates, PublishRejected(c, state), UNCHANGED rowVars
        PROVE  pc'[c] = "rejected" /\ (heard'[c] = "stored" => ~online'[SessionOf[c]])
    <3>1. ~accepted[c]
      BY <1>1, <1>4, <2>3 DEF PublishRejected, SlotTakenFor, CalmHoldsSlot
    <3>2. /\ heard[c] = "stored" => ~online[SessionOf[c]]
          /\ pc'[c] = "rejected" /\ online' = online /\ heard' = heard
      BY <1>2, <1>4, <2>3, <3>1 DEF PublishRejected, rowVars
    <3> QED BY <3>2
  <2>4. CASE Accepted(c)
    <3>1. ~Monitoring(sent[c])
      BY <1>4, <2>4 DEF Accepted, PublishState, TaskOfPublish
    <3> QED BY <1>4, <2>4, <3>1 DEF Accepted, PublishState, OnlineAfter
  <2>5. CASE Rejected(c)
    BY <1>2, <1>4, <2>5 DEF Rejected, StopRejected
  <2>6. CASE ClearOthers(c)
    BY <1>2, <1>4, <2>6 DEF ClearOthers, vars, TaskOfPublish
  <2>7. CASE Record(c)
    <3>1. row' = [row EXCEPT ![SessionOf[c]] = toWrite[c]]
      BY <1>1, <1>4, <2>7 DEF Record, StatementFails, Calm
    <3>2. ~accepted[c] /\ task[c] # "free"
      BY <1>4, <2>7 DEF Record, vars
    <3>3. ~Monitoring(toWrite[c])
      BY <3>2 DEF TaskOfPublish
    <3> QED BY <1>2, <1>4, <2>7, <3>1, <3>3 DEF Record, vars
  <2>8. CASE Leave(c)
    BY <1>4, <2>8 DEF Leave, DetachRoom
  <2>9. CASE Released(c)
    BY <1>4, <2>9 DEF Released, DetachClaim
  <2> QED BY <1>4, <2>1, <2>2, <2>3, <2>4, <2>5, <2>6, <2>7, <2>8, <2>9
          DEF Device, ClientState
<1> QED BY <1>3, <1>4

-----------------------------------------------------------------------------
LEMMA SessionsInvInit == SessionsInit => SessionsInv
<1> SUFFICES ASSUME SessionsInit
             PROVE  SessionsInv
  OBVIOUS
<1>1. TypeOK /\ PublisherIsLive
  BY TypeInit DEF SessionsInit, Init, PublisherIsLive
<1>2. SessionsTypeOK
  BY <1>1 DEF SessionsInit, SessionsTypeOK, Tasks, Verdicts
<1>3. CalmApart /\ CalmHoldsSlot /\ TaskOfPublish
  BY DEF SessionsInit, Init, CalmApart, CalmHoldsSlot, TaskOfPublish
<1>4. OthersClear /\ OneMonitorRow /\ HeardIsTold
  BY RowsType DEF SessionsInit, Init, OthersClear, OneMonitorRow, HeardIsTold
<1> QED BY <1>1, <1>2, <1>3, <1>4 DEF SessionsInv, SlotPart

LEMMA SessionsStep == SessionsInv /\ [SessionsNext]_sessionVars => SessionsInv'
<1> SUFFICES ASSUME SessionsInv, [SessionsNext]_sessionVars
             PROVE  SessionsInv'
  OBVIOUS
<1> USE DEF SessionsInv
<1>0. SessionsTypeOK'
  BY SessionsTypeStep DEF SlotPart
<1>1. ASSUME NEW c \in Conns, Device(c)
      PROVE  SessionsInv'
  <2>1. PublisherIsLive'
    BY <1>1, HubPart, PublisherStep DEF SlotPart, SessionsTypeOK
  <2>2. SlotPart'
    BY <1>0, <1>1, CalmApartStep, CalmHoldsStep, TaskStep DEF SlotPart
  <2>3. OthersClear' /\ OneMonitorRow' /\ HeardIsTold'
    BY <1>1, OthersClearStep, OneRowStep, HeardStep
  <2> QED BY <2>1, <2>2, <2>3
<1>2. ASSUME NEW s \in Sessions, ResetRow(s)
      PROVE  SessionsInv'
  <2>1. UNCHANGED <<vars, task, toWrite, heard, disturbed>>
    BY <1>2 DEF ResetRow
  <2>2. \A t \in Sessions : Monitoring(row'[t]) => Monitoring(row[t])
    <3>1. row[s] \in ClientStates \cup {NoState}
      BY DEF SlotPart, SessionsTypeOK
    <3>2. row' = [row EXCEPT ![s] = [row[s] EXCEPT !.running = FALSE]]
      BY <1>2 DEF ResetRow
    <3>3. row'[s] = [row[s] EXCEPT !.running = FALSE]
      BY <3>2 DEF SlotPart, SessionsTypeOK
    <3>4. ~Monitoring(row'[s])
      BY <3>1, <3>3, StoppedRow
    <3> QED BY <3>2, <3>4 DEF SlotPart, SessionsTypeOK
  <2>3. CalmApart' /\ CalmHoldsSlot' /\ TaskOfPublish'
    BY <2>1 DEF SlotPart, vars, CalmApart, CalmHoldsSlot, TaskOfPublish, Calm, UserOf
  <2>4. OthersClear' /\ OneMonitorRow' /\ HeardIsTold'
    BY <2>1, <2>2, HubAssumption DEF vars, OthersClear, OneMonitorRow, HeardIsTold, Calm, UserOf
  <2>5. PublisherIsLive'
    BY <2>1 DEF vars, PublisherIsLive
  <2> QED BY <1>0, <2>3, <2>4, <2>5 DEF SlotPart
<1>3. CASE Restart
  <2>1. /\ \A c \in Conns : pc'[c] = "closed" /\ ~accepted'[c] /\ task'[c] = "free"
        /\ \A s \in Sessions : publisher'[s] = NoConn /\ ~connected'[s]
        /\ UNCHANGED <<row, disturbed>>
    BY <1>3 DEF Restart
  <2>2. CalmApart' /\ CalmHoldsSlot' /\ TaskOfPublish' /\ PublisherIsLive'
    BY <2>1 DEF CalmApart, CalmHoldsSlot, TaskOfPublish, PublisherIsLive
  <2>3. OthersClear' /\ OneMonitorRow' /\ HeardIsTold'
    BY <2>1 DEF OthersClear, OneMonitorRow, HeardIsTold
  <2> QED BY <1>0, <2>2, <2>3 DEF SlotPart
<1>4. CASE UNCHANGED sessionVars
  BY <1>0, <1>4 DEF sessionVars, rowVars, vars, SlotPart, CalmApart, CalmHoldsSlot,
     TaskOfPublish, PublisherIsLive, OthersClear, OneMonitorRow, HeardIsTold, Calm, UserOf
<1> QED BY <1>1, <1>2, <1>3, <1>4 DEF SessionsNext

\* The inductive invariant of the device handlers and their rows, across restarts.
THEOREM SessionsInvariant == SessionsSpec => []SessionsInv
BY SessionsInvInit, SessionsStep, PTL DEF SessionsSpec

\* The hub, the rows and the handlers keep their types, across restarts.
THEOREM SessionRowsTypeOK == SessionsSpec => []SessionsTypeOK
<1>1. SessionsInv => SessionsTypeOK
  BY DEF SessionsInv, SlotPart
<1> QED BY <1>1, SessionsInvariant, PTL

\* The rows of an account name one running monitor at most: statistics and
\* notifications see what the hub decided (handleDeviceWebSocket).
THEOREM OneRowMonitors == SessionsSpec => []OneMonitorRow
<1>1. SessionsInv => OneMonitorRow
  BY DEF SessionsInv
<1> QED BY <1>1, SessionsInvariant, PTL

\* A device that is not accepted is no running monitor in its row once it was
\* heard, and none in its room once it stored a state (Publish and the two
\* statements of handleDeviceWebSocket).
THEOREM GhostsAreGone == SessionsSpec => []NoGhostMonitor
<1>1. SessionsInv => NoGhostMonitor
  BY DEF SessionsInv, HeardIsTold, NoGhostMonitor, Calm
<1> QED BY <1>1, SessionsInvariant, PTL

=============================================================================
