--------------------------------- MODULE Hub ---------------------------------
(***************************************************************************)
(* The realtime hub (internal/realtime/hub.go): rooms, the connection that *)
(* publishes in each of them, and the map activeMonitors that reserves the *)
(* single monitor slot of an account.  An action is one critical section   *)
(* of hub.go: AttachDevice holds room.mu once, Publish of a client_state   *)
(* takes h.mu (updateMonitorClaim) and then, after releasing it, room.mu,  *)
(* and the detach closure takes room.mu and then h.mu.  Everything between *)
(* two sections of one handler interleaves with every other handler.       *)
(*                                                                         *)
(* A connection name stands for one websocket handler and is used again    *)
(* after that handler returned; hub.go compares connection identifiers     *)
(* only with the publisher of a room, which a returned handler never is.   *)
(* The account of a room is the owner of its session: AttachDevice stores  *)
(* the account that ensureDeviceSession found the session for.             *)
(***************************************************************************)
CONSTANTS
  Sessions,   \* device sessions: one per (account, computer)
  Users,      \* accounts
  OwnerOf,    \* [Sessions -> Users], the account of each session
  NoSession,  \* the empty monitor slot
  Conns,      \* websocket handlers that may serve a device
  SessionOf,  \* [Conns -> Sessions], the session a handler serves
  Modes,      \* the modes a device reports ("monitor" is one of them)
  NoConn,     \* the empty publisher
  Overlap     \* TRUE: a device may connect while a handler of its session
              \* has not returned yet

ASSUME HubAssumption ==
  /\ OwnerOf \in [Sessions -> Users]
  /\ NoSession \notin Sessions
  /\ SessionOf \in [Conns -> Sessions]
  /\ "monitor" \in Modes
  /\ NoConn \notin Conns
  /\ Overlap \in BOOLEAN

VARIABLES
  publisher,       \* room.publisher
  connected,       \* room.connected
  online,          \* room.online
  clientState,     \* room.clientState: it survives a disconnect
  activeMonitors,  \* h.activeMonitors
  pc,              \* where each handler is
  sent,            \* the client_state a handler is publishing
  accepted         \* the handler's device was told it may monitor

roomVars == <<publisher, connected, online, clientState>>
vars == <<publisher, connected, online, clientState, activeMonitors,
          pc, sent, accepted>>

NoState == [mode |-> "", running |-> FALSE]
ClientStates == [mode : Modes, running : BOOLEAN]

\* The derived flag of hub.go: in monitor mode and running.
Monitoring(state) == state.mode = "monitor" /\ state.running

UserOf(c) == OwnerOf[SessionOf[c]]

\* closed:    no handler; also the state it returns to
\* serving:   in the select loop, waiting for a message
\* claimed:   Publish left updateMonitorClaim and has not locked the room
\* rejected:  Publish returned false
\* detaching: the detach closure cleared the room and has not locked h.mu
Stages == {"closed", "serving", "claimed", "rejected", "detaching"}
Live == {"serving", "claimed", "rejected"}

Init ==
  /\ publisher = [s \in Sessions |-> NoConn]
  /\ connected = [s \in Sessions |-> FALSE]
  /\ online = [s \in Sessions |-> FALSE]
  /\ clientState = [s \in Sessions |-> NoState]
  /\ activeMonitors = [u \in Users |-> NoSession]
  /\ pc = [c \in Conns |-> "closed"]
  /\ sent = [c \in Conns |-> NoState]
  /\ accepted = [c \in Conns |-> FALSE]

\* No handler of c's session is running.
SessionIdle(c) ==
  \A d \in Conns : SessionOf[d] = SessionOf[c] => pc[d] = "closed"

\* AttachDevice: the newest connection becomes the publisher.  The online flag
\* is derived from whatever client_state the room remembers.
AttachDevice(c) ==
  LET s == SessionOf[c] IN
  /\ pc[c] = "closed"
  /\ Overlap \/ SessionIdle(c)
  /\ publisher' = [publisher EXCEPT ![s] = c]
  /\ connected' = [connected EXCEPT ![s] = TRUE]
  /\ online' = [online EXCEPT ![s] = Monitoring(clientState[s])]
  /\ pc' = [pc EXCEPT ![c] = "serving"]
  /\ UNCHANGED <<clientState, activeMonitors, sent, accepted>>

\* Mutants of the check below: it is skipped, or forgets that a device may
\* start again.
NeverTaken(c) == FALSE
TakenByAnyone(c) == activeMonitors[UserOf(c)] # NoSession

\* updateMonitorClaim: another session of the account owns the slot.
SlotTakenFor(c) == activeMonitors[UserOf(c)] \notin {NoSession, SessionOf[c]}

\* Mutants of the update below: a stop keeps the slot, a stop frees the slot of
\* whoever owns it, the slot stores the connection.
StopKeepsClaim(c, state) ==
  IF Monitoring(state)
  THEN [activeMonitors EXCEPT ![UserOf(c)] = SessionOf[c]]
  ELSE activeMonitors
StopFreesAnyClaim(c, state) ==
  [activeMonitors EXCEPT ![UserOf(c)] =
     IF Monitoring(state) THEN SessionOf[c] ELSE NoSession]
ClaimStoresConn(c, state) ==
  IF Monitoring(state)
  THEN [activeMonitors EXCEPT ![UserOf(c)] = c]
  ELSE activeMonitors

\* updateMonitorClaim: the slot after a granted start or a stop.
ClaimAfter(c, state) ==
  IF Monitoring(state)
  THEN [activeMonitors EXCEPT ![UserOf(c)] = SessionOf[c]]
  ELSE IF activeMonitors[UserOf(c)] = SessionOf[c]
       THEN [activeMonitors EXCEPT ![UserOf(c)] = NoSession]
       ELSE activeMonitors

\* Publish of a client_state, first section: the claim is granted, or the
\* device gives its claim back.
PublishClaim(c, state) ==
  /\ pc[c] = "serving"
  /\ ~(Monitoring(state) /\ SlotTakenFor(c))
  /\ activeMonitors' = ClaimAfter(c, state)
  /\ accepted' = [accepted EXCEPT ![c] = Monitoring(state)]
  /\ sent' = [sent EXCEPT ![c] = state]
  /\ pc' = [pc EXCEPT ![c] = "claimed"]
  /\ UNCHANGED roomVars

\* Publish returns false before it touches the room.
PublishRejected(c, state) ==
  /\ pc[c] = "serving"
  /\ Monitoring(state)
  /\ SlotTakenFor(c)
  /\ accepted' = [accepted EXCEPT ![c] = FALSE]
  /\ pc' = [pc EXCEPT ![c] = "rejected"]
  /\ UNCHANGED <<publisher, connected, online, clientState,
                 activeMonitors, sent>>

\* Mutant of the flag below: once on, it stays on.
OnlineSticks(c) == online[SessionOf[c]] \/ Monitoring(sent[c])

\* The flag that Publish derives again from every client_state.
OnlineAfter(c) == Monitoring(sent[c])

\* Publish of a client_state, second section.
PublishState(c) ==
  LET s == SessionOf[c] IN
  /\ pc[c] = "claimed"
  /\ clientState' = [clientState EXCEPT ![s] = sent[c]]
  /\ online' = [online EXCEPT ![s] = OnlineAfter(c)]
  /\ sent' = [sent EXCEPT ![c] = NoState]
  /\ pc' = [pc EXCEPT ![c] = "serving"]
  /\ UNCHANGED <<publisher, connected, activeMonitors, accepted>>

\* The handler of a rejected device queues a stop command and reads on.
StopRejected(c) ==
  /\ pc[c] = "rejected"
  /\ pc' = [pc EXCEPT ![c] = "serving"]
  /\ UNCHANGED <<publisher, connected, online, clientState, activeMonitors,
                 sent, accepted>>

\* Mutants of the test below: inverted, dropped.
NotOwnRoom(c) == publisher[SessionOf[c]] # c
AnyRoom(c) == TRUE

\* The detach closure clears a room only while its handler is the publisher.
OwnRoom(c) == publisher[SessionOf[c]] = c

\* The handler returns (read error, lost pings, a bad message, a disconnect
\* frame) and its detach closure locks the room.
DetachRoom(c) ==
  LET s == SessionOf[c] IN
  /\ pc[c] = "serving"
  /\ accepted' = [accepted EXCEPT ![c] = FALSE]
  /\ IF OwnRoom(c)
     THEN /\ publisher' = [publisher EXCEPT ![s] = NoConn]
          /\ connected' = [connected EXCEPT ![s] = FALSE]
          /\ online' = [online EXCEPT ![s] = FALSE]
          /\ pc' = [pc EXCEPT ![c] = "detaching"]
     ELSE /\ UNCHANGED <<publisher, connected, online>>
          /\ pc' = [pc EXCEPT ![c] = "closed"]
  /\ UNCHANGED <<clientState, activeMonitors, sent>>

\* Mutant of the release below: the claim is forgotten.
NothingReleased(c) == activeMonitors

\* The detach closure frees the slot when its session owns it.
ReleaseAfter(c) ==
  IF activeMonitors[UserOf(c)] = SessionOf[c]
  THEN [activeMonitors EXCEPT ![UserOf(c)] = NoSession]
  ELSE activeMonitors

\* The second section of the detach closure.
DetachClaim(c) ==
  /\ pc[c] = "detaching"
  /\ activeMonitors' = ReleaseAfter(c)
  /\ pc' = [pc EXCEPT ![c] = "closed"]
  /\ UNCHANGED <<publisher, connected, online, clientState, sent, accepted>>

Handler(c) ==
  \/ AttachDevice(c)
  \/ \E state \in ClientStates : PublishClaim(c, state)
  \/ \E state \in ClientStates : PublishRejected(c, state)
  \/ PublishState(c)
  \/ StopRejected(c)
  \/ DetachRoom(c)
  \/ DetachClaim(c)

Next == \E c \in Conns : Handler(c)

Spec == Init /\ [][Next]_vars

\* The Go scheduler runs a handler that is inside Publish or detach; whether a
\* device connects, sends or leaves is its own choice.
Fairness ==
  \A c \in Conns :
    /\ WF_vars(PublishState(c))
    /\ WF_vars(StopRejected(c))
    /\ WF_vars(DetachClaim(c))

FairSpec == Spec /\ Fairness

-----------------------------------------------------------------------------
TypeOK ==
  /\ publisher \in [Sessions -> Conns \cup {NoConn}]
  /\ connected \in [Sessions -> BOOLEAN]
  /\ online \in [Sessions -> BOOLEAN]
  /\ clientState \in [Sessions -> ClientStates \cup {NoState}]
  /\ activeMonitors \in [Users -> Sessions \cup {NoSession}]
  /\ pc \in [Conns -> Stages]
  /\ sent \in [Conns -> ClientStates \cup {NoState}]
  /\ accepted \in [Conns -> BOOLEAN]

\* The current connection of a device was told it may monitor.
MayMonitor(c) == accepted[c] /\ publisher[SessionOf[c]] = c

\* Two devices of one account are never both told they may monitor, whatever
\* the interleaving of their starts, stops and disconnects (the promise of
\* updateMonitorClaim).
SingleMonitor ==
  \A c, d \in Conns :
    MayMonitor(c) /\ MayMonitor(d) /\ UserOf(c) = UserOf(d) => c = d

\* A reserved slot is backed by a handler that is accepted or is on its way to
\* give the slot back: no claim outlives its device (Publish and detach).
ClaimBacked ==
  \A s \in Sessions :
    activeMonitors[OwnerOf[s]] = s =>
      \E c \in Conns : SessionOf[c] = s /\ (accepted[c] \/ pc[c] = "detaching")

\* The room belongs to the handler that attached last: connected says exactly
\* that the publisher's handler is running, so the detach of an older handler
\* never tears the newer connection down (hub.go detach closure).
PublisherIsLive ==
  \A s \in Sessions :
    /\ connected[s] <=> publisher[s] # NoConn
    /\ publisher[s] # NoConn =>
         SessionOf[publisher[s]] = s /\ pc[publisher[s]] \in Live

\* A room is never disconnected while the handler of its publisher goes on: the
\* late detach of an older handler leaves it alone (hub.go detach closure).
OnlyPublisherDisconnects ==
  [][\A s \in Sessions :
       connected[s] /\ ~connected'[s] => pc'[publisher[s]] \notin Live]_vars

\* Whoever is rejected is rejected for a device of another session that is
\* accepted or is just leaving.
RejectionJustified ==
  [][\A c \in Conns :
       pc[c] # "rejected" /\ pc'[c] = "rejected" =>
         \E d \in Conns :
           /\ UserOf(d) = UserOf(c) /\ SessionOf[d] # SessionOf[c]
           /\ accepted[d] \/ pc[d] = "detaching"]_vars

\* The hub implements the monitor slot.
Slot == INSTANCE MonitorSlot WITH
          holder <- activeMonitors,
          monitors <- {SessionOf[c] : c \in {d \in Conns : accepted[d]}}

SlotRefinement == Slot!SlotSpec
SlotFreedRefinement == Slot!SlotFreed

=============================================================================
