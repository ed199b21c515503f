------------------------------ MODULE Sessions ------------------------------
(***************************************************************************)
(* The device handler (handleDeviceWebSocket, internal/api/server.go) on   *)
(* top of the hub: what it writes into the row of its session in           *)
(* monitor_sessions after each client_state, where statistics and          *)
(* notifications look for the account's monitor.  Publish decides first;   *)
(* then an accepted monitor clears the rows of the account's other         *)
(* devices, and the handler records its own row.  These are two statements *)
(* whose errors are ignored, and between them every other handler, a       *)
(* revocation, a bind and a restart of the server may run.                 *)
(*                                                                         *)
(* The hub's steps are the actions of module Hub.  A handler is sequential:*)
(* it reads its next message, and returns, only when its task is done.     *)
(***************************************************************************)
EXTENDS Hub

VARIABLES
  row,       \* mode and running of the session in monitor_sessions
  task,      \* what the handler has still to write
  toWrite,   \* the state it writes
  heard,     \* history: what Publish made of the client_states of this
             \* connection: nothing yet, only rejections, or it stored one
  disturbed  \* history: in this account handlers of a device overlapped, or a
             \* statement failed

rowVars == <<row, task, toWrite, heard, disturbed>>
sessionVars == <<vars, rowVars>>

Tasks == {"free", "clear", "record"}
Verdicts == {"nothing", "rejected", "stored"}

SessionsInit ==
  /\ Init
  /\ row = [s \in Sessions |-> NoState]
  /\ task = [c \in Conns |-> "free"]
  /\ toWrite = [c \in Conns |-> NoState]
  /\ heard = [c \in Conns |-> "nothing"]
  /\ disturbed = [u \in Users |-> FALSE]

\* A device connects.
Connect(c) ==
  /\ AttachDevice(c)
  /\ heard' = [heard EXCEPT ![c] = "nothing"]
  /\ disturbed' = [disturbed EXCEPT ![UserOf(c)] = @ \/ ~SessionIdle(c)]
  /\ UNCHANGED <<row, task, toWrite>>

\* It sends its state, and Publish accepts or rejects it.
ClientState(c, state) ==
  /\ task[c] = "free"
  /\ PublishClaim(c, state) \/ PublishRejected(c, state)
  /\ UNCHANGED rowVars

\* Publish returns true: a monitor clears the other rows before its own.
Accepted(c) ==
  /\ PublishState(c)
  /\ task' = [task EXCEPT ![c] = IF Monitoring(sent[c]) THEN "clear" ELSE "record"]
  /\ toWrite' = [toWrite EXCEPT ![c] = sent[c]]
  /\ heard' = [heard EXCEPT ![c] = "stored"]
  /\ UNCHANGED <<row, disturbed>>

\* Mutant of the state below: as the device sent it.
RejectedAsSent == [mode |-> "monitor", running |-> TRUE]

\* What is recorded of a rejected device: monitor mode, not running.
RejectedState == [mode |-> "monitor", running |-> FALSE]

\* Publish returned false: the device is told to stop.
Rejected(c) ==
  /\ StopRejected(c)
  /\ task' = [task EXCEPT ![c] = "record"]
  /\ toWrite' = [toWrite EXCEPT ![c] = RejectedState]
  /\ heard' = [heard EXCEPT ![c] = IF @ = "stored" THEN @ ELSE "rejected"]
  /\ UNCHANGED <<row, disturbed>>

\* Mutant of the rows below: no row is cleared.
NoneCleared(c) == row

\* The other devices of the account that were left as running monitors.
OthersCleared(c) ==
  [s \in Sessions |->
     IF OwnerOf[s] = UserOf(c) /\ s # SessionOf[c] /\ Monitoring(row[s])
     THEN [row[s] EXCEPT !.running = FALSE]
     ELSE row[s]]

\* A statement's error is ignored: the rows stay as they were.
StatementFails(c) ==
  /\ disturbed' = [disturbed EXCEPT ![UserOf(c)] = TRUE]
  /\ UNCHANGED row

ClearOthers(c) ==
  /\ task[c] = "clear"
  /\ \/ row' = OthersCleared(c) /\ UNCHANGED disturbed
     \/ StatementFails(c)
  /\ task' = [task EXCEPT ![c] = "record"]
  /\ UNCHANGED <<vars, toWrite, heard>>

Record(c) ==
  /\ task[c] = "record"
  /\ \/ /\ row' = [row EXCEPT ![SessionOf[c]] = toWrite[c]]
        /\ UNCHANGED disturbed
     \/ StatementFails(c)
  /\ task' = [task EXCEPT ![c] = "free"]
  /\ toWrite' = [toWrite EXCEPT ![c] = NoState]
  /\ UNCHANGED <<vars, heard>>

\* The handler returns.  The row keeps what the device said last.
Leave(c) ==
  /\ task[c] = "free"
  /\ DetachRoom(c)
  /\ heard' = [heard EXCEPT ![c] = "nothing"]
  /\ UNCHANGED <<row, task, toWrite, disturbed>>

Released(c) ==
  /\ DetachClaim(c)
  /\ UNCHANGED rowVars

\* revokeClient, and a later bind of the same computer, reset the flag.  The
\* disconnect that follows a revocation is a Leave.
ResetRow(s) ==
  /\ row[s].running
  /\ row' = [row EXCEPT ![s].running = FALSE]
  /\ UNCHANGED <<vars, task, toWrite, heard, disturbed>>

\* The process ends and starts again: the hub is empty, the rows stay.
Restart ==
  /\ \E c \in Conns : pc[c] # "closed"
  /\ publisher' = [s \in Sessions |-> NoConn]
  /\ connected' = [s \in Sessions |-> FALSE]
  /\ online' = [s \in Sessions |-> FALSE]
  /\ clientState' = [s \in Sessions |-> NoState]
  /\ activeMonitors' = [u \in Users |-> NoSession]
  /\ pc' = [c \in Conns |-> "closed"]
  /\ sent' = [c \in Conns |-> NoState]
  /\ accepted' = [c \in Conns |-> FALSE]
  /\ task' = [c \in Conns |-> "free"]
  /\ toWrite' = [c \in Conns |-> NoState]
  /\ heard' = [c \in Conns |-> "nothing"]
  /\ UNCHANGED <<row, disturbed>>

Device(c) ==
  \/ Connect(c)
  \/ \E state \in ClientStates : ClientState(c, state)
  \/ Accepted(c)
  \/ Rejected(c)
  \/ ClearOthers(c)
  \/ Record(c)
  \/ Leave(c)
  \/ Released(c)

SessionsNext ==
  \/ \E c \in Conns : Device(c)
  \/ \E s \in Sessions : ResetRow(s)
  \/ Restart

SessionsSpec == SessionsInit /\ [][SessionsNext]_sessionVars

-----------------------------------------------------------------------------
SessionsTypeOK ==
  /\ TypeOK
  /\ row \in [Sessions -> ClientStates \cup {NoState}]
  /\ task \in [Conns -> Tasks]
  /\ toWrite \in [Conns -> ClientStates \cup {NoState}]
  /\ heard \in [Conns -> Verdicts]
  /\ disturbed \in [Users -> BOOLEAN]

\* "Database-backed statistics and notifications see the same single active
\* monitor": at most one row of an account is a running monitor, through stops
\* that race with starts, lost connections and restarts, as long as no handlers
\* of one device overlapped and no statement failed.
OneMonitorRow ==
  \A s, t \in Sessions :
    Monitoring(row[s]) /\ Monitoring(row[t]) /\ OwnerOf[s] = OwnerOf[t]
      => s = t \/ disturbed[OwnerOf[s]]

\* Nothing calls a connected device a monitor that the hub did not accept.  The
\* row stops doing so with the first client_state of the connection, whether
\* Publish stores or rejects it.  The room's online flag stops only when one is
\* stored: a rejection returns before the room is touched, so what AttachDevice
\* derived from an earlier connection survives any number of rejections.
NoGhostMonitor ==
  \A c \in Conns :
    LET s == SessionOf[c] IN
    /\ publisher[s] = c /\ pc[c] = "serving" /\ task[c] = "free"
    /\ ~accepted[c] /\ ~disturbed[UserOf(c)]
    => /\ heard[c] # "nothing" => ~Monitoring(row[s])
       /\ heard[c] = "stored" => ~online[s]

=============================================================================
