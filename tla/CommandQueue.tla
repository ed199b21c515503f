---------------------------- MODULE CommandQueue ----------------------------
(***************************************************************************)
(* The controls channel of one room (internal/realtime/hub.go): commands   *)
(* queued by SendCommand, the in-band nil frame that disconnectDevice      *)
(* queues behind its notice, the drain loop before it, the replacement of  *)
(* the channel by AttachDevice, and the device handler that consumes it.   *)
(*                                                                         *)
(* The locks are those of the code: SendCommand holds commandMu and a read *)
(* lock of room.mu while it waits for room in the channel, AttachDevice    *)
(* takes commandMu and then room.mu, disconnectDevice and detach take      *)
(* room.mu only, and a handler receives from its channel without any lock. *)
(* Every handler has the channel it was given at AttachDevice; a channel   *)
(* that was replaced keeps its frames and loses its senders.               *)
(***************************************************************************)
EXTENDS Sequences, Naturals

CONSTANTS
  Conns,          \* device handlers of the room's session
  Senders,        \* goroutines that call SendCommand, once each
  Disconnectors,  \* goroutines that call DisconnectDevice or KickDevice, once each
  Cap,            \* capacity of the controls channel (64 in the code)
  NoConn,         \* no channel: room.controls = nil
  NoOne           \* a free lock

ASSUME QueueAssumption ==
  /\ Cap \in Nat /\ Cap >= 2
  /\ NoConn \notin Conns
  /\ NoOne \notin Conns \cup Senders \cup Disconnectors
  /\ (Conns \cup Senders) \cap Disconnectors = {} /\ Conns \cap Senders = {}

VARIABLES
  hpc,        \* where each handler is
  controls,   \* the handler whose channel is room.controls
  channel,    \* the frames in each handler's channel
  commandMu,  \* who holds room.commandMu
  writer,     \* who holds room.mu for writing
  spc,        \* where each call of SendCommand is
  target,     \* the local variable controls of SendCommand and disconnectDevice
  dpc,        \* where each call of disconnectDevice is
  lastFrame   \* the frame each handler received last

vars == <<hpc, controls, channel, commandMu, writer, spc, target, dpc, lastFrame>>

\* What the channel carries: an ordinary command, the unbind or kick notice,
\* and the nil frame.
Frames == {"command", "notice", "nil"}

\* A handler also calls SendCommand, for its own device.
Callers == Senders \cup Conns

\* Callers that hold a read lock of room.mu across steps: they wait in the
\* select statement of SendCommand.
Readers == {p \in Callers : spc[p] = "blocked"}

\* room.mu can be taken for writing, for reading.
CanLock == writer = NoOne /\ Readers = {}
CanRLock == writer = NoOne

\* Mutant: one frame too many.
Overfull(c) == Len(channel[c]) > Cap

Full(c) == Len(channel[c]) = Cap

Init ==
  /\ hpc = [c \in Conns |-> "closed"]
  /\ controls = NoConn
  /\ channel = [c \in Conns |-> <<>>]
  /\ commandMu = NoOne
  /\ writer = NoOne
  /\ spc = [p \in Callers |-> "called"]
  /\ target = [p \in Callers \cup Disconnectors |-> NoConn]
  /\ dpc = [d \in Disconnectors |-> "called"]
  /\ lastFrame = [c \in Conns |-> "none"]

-----------------------------------------------------------------------------
\* AttachDevice: commandMu, then room.mu; the room gets a new channel.
AttachLock(c) ==
  /\ hpc[c] = "closed"
  /\ commandMu = NoOne
  /\ commandMu' = c
  /\ hpc' = [hpc EXCEPT ![c] = "attaching"]
  /\ UNCHANGED <<controls, channel, writer, spc, target, dpc, lastFrame>>

\* Mutant of the lock below: the room is not locked.
AttachUnlocked(c) == hpc[c] = "attaching"

MayAttach(c) == hpc[c] = "attaching" /\ CanLock

AttachRoom(c) ==
  /\ MayAttach(c)
  /\ controls' = c
  /\ channel' = [channel EXCEPT ![c] = <<>>]
  /\ lastFrame' = [lastFrame EXCEPT ![c] = "none"]
  /\ commandMu' = NoOne
  /\ hpc' = [hpc EXCEPT ![c] = "select"]
  /\ UNCHANGED <<writer, spc, target, dpc>>

-----------------------------------------------------------------------------
\* SendCommand.  A sender has called it from the start; a handler calls it
\* each time it answers a message of its own device.
SendLock(p) ==
  /\ spc[p] = "called"
  /\ p \in Conns => hpc[p] = "replying"
  /\ commandMu = NoOne
  /\ commandMu' = p
  /\ spc' = [spc EXCEPT ![p] = "locked"]
  /\ UNCHANGED <<hpc, controls, channel, writer, target, dpc, lastFrame>>

\* SendCommand returns: both locks are released, a handler reads on.
SendReturn(p) ==
  /\ commandMu' = NoOne
  /\ spc' = [spc EXCEPT ![p] = IF p \in Conns THEN "called" ELSE "returned"]
  /\ hpc' = IF p \in Conns THEN [hpc EXCEPT ![p] = "select"] ELSE hpc
  /\ target' = [target EXCEPT ![p] = NoConn]

\* The device is not connected.
SendRefused(p) ==
  /\ spc[p] = "locked" /\ CanRLock
  /\ controls = NoConn
  /\ SendReturn(p)
  /\ UNCHANGED <<controls, channel, writer, dpc, lastFrame>>

\* The channel has room.
SendNow(p) ==
  /\ spc[p] = "locked" /\ CanRLock
  /\ controls # NoConn /\ ~Full(controls)
  /\ channel' = [channel EXCEPT ![controls] = Append(@, "command")]
  /\ SendReturn(p)
  /\ UNCHANGED <<controls, writer, dpc, lastFrame>>

\* The channel is full: wait with both locks held.
SendBlock(p) ==
  /\ spc[p] = "locked" /\ CanRLock
  /\ controls # NoConn /\ Full(controls)
  /\ target' = [target EXCEPT ![p] = controls]
  /\ spc' = [spc EXCEPT ![p] = "blocked"]
  /\ UNCHANGED <<hpc, controls, channel, commandMu, writer, dpc, lastFrame>>

SendUnblocked(p) ==
  /\ spc[p] = "blocked"
  /\ ~Full(target[p])
  /\ channel' = [channel EXCEPT ![target[p]] = Append(@, "command")]
  /\ SendReturn(p)
  /\ UNCHANGED <<controls, writer, dpc, lastFrame>>

\* Mutant: no time limit.
NoTimeout(p) == FALSE

\* Two seconds passed: the command is dropped.
SendTimeout(p) ==
  /\ spc[p] = "blocked"
  /\ SendReturn(p)
  /\ UNCHANGED <<controls, channel, writer, dpc, lastFrame>>

-----------------------------------------------------------------------------
\* Mutant of the lock below: a read lock, as in SendCommand.
DisconnectRLock == CanRLock

DisconnectMayLock == CanLock

\* disconnectDevice keeps room.mu until it returns.
DisconnectLock(d) ==
  /\ dpc[d] = "called"
  /\ DisconnectMayLock
  /\ target' = [target EXCEPT ![d] = controls]
  /\ IF controls = NoConn
     THEN dpc' = [dpc EXCEPT ![d] = "refused"] /\ UNCHANGED writer
     ELSE dpc' = [dpc EXCEPT ![d] = "drain"] /\ writer' = d
  /\ UNCHANGED <<hpc, controls, channel, commandMu, spc, lastFrame>>

\* The test of the drain loop: the channel had a frame, or it had none.
DrainTest(d) ==
  /\ dpc[d] = "drain"
  /\ dpc' = [dpc EXCEPT ![d] =
               IF channel[target[d]] = <<>> THEN "notice" ELSE "take"]
  /\ UNCHANGED <<hpc, controls, channel, commandMu, writer, spc, target, lastFrame>>

\* Its body: a receive, which waits while the channel is empty.
DrainTake(d) ==
  /\ dpc[d] = "take"
  /\ channel[target[d]] # <<>>
  /\ channel' = [channel EXCEPT ![target[d]] = Tail(@)]
  /\ dpc' = [dpc EXCEPT ![d] = "drain"]
  /\ UNCHANGED <<hpc, controls, commandMu, writer, spc, target, lastFrame>>

\* Mutant of the frames below: nothing closes the connection.
NoNil == <<"notice", "notice">>

\* What disconnectDevice queues once the channel is empty.
Farewell == <<"notice", "nil">>

QueueNotice(d) ==
  /\ dpc[d] = "notice"
  /\ ~Full(target[d])
  /\ channel' = [channel EXCEPT ![target[d]] = Append(@, Farewell[1])]
  /\ dpc' = [dpc EXCEPT ![d] = "nil"]
  /\ UNCHANGED <<hpc, controls, commandMu, writer, spc, target, lastFrame>>

QueueNil(d) ==
  /\ dpc[d] = "nil"
  /\ ~Full(target[d])
  /\ channel' = [channel EXCEPT ![target[d]] = Append(@, Farewell[2])]
  /\ dpc' = [dpc EXCEPT ![d] = "done"]
  /\ writer' = NoOne
  /\ UNCHANGED <<hpc, controls, commandMu, spc, target, lastFrame>>

-----------------------------------------------------------------------------
\* The handler takes the next frame of its own channel: nil ends the loop,
\* anything else is written to the device.
Receive(c) ==
  LET frame == Head(channel[c]) IN
  /\ hpc[c] = "select"
  /\ channel[c] # <<>>
  /\ channel' = [channel EXCEPT ![c] = Tail(@)]
  /\ IF frame = "nil"
     THEN hpc' = [hpc EXCEPT ![c] = "leaving"] /\ UNCHANGED lastFrame
     ELSE lastFrame' = [lastFrame EXCEPT ![c] = frame] /\ UNCHANGED hpc
  /\ UNCHANGED <<controls, commandMu, writer, spc, target, dpc>>

\* A message of the device needs an answer through SendCommand.
Reply(c) ==
  /\ hpc[c] = "select"
  /\ hpc' = [hpc EXCEPT ![c] = "replying"]
  /\ UNCHANGED <<controls, channel, commandMu, writer, spc, target, dpc, lastFrame>>

\* The connection broke: a read, a write or the second ping failed.
ConnectionLost(c) ==
  /\ hpc[c] = "select"
  /\ hpc' = [hpc EXCEPT ![c] = "leaving"]
  /\ UNCHANGED <<controls, channel, commandMu, writer, spc, target, dpc, lastFrame>>

\* The detach closure.
Detach(c) ==
  /\ hpc[c] = "leaving"
  /\ CanLock
  /\ controls' = IF controls = c THEN NoConn ELSE controls
  /\ hpc' = [hpc EXCEPT ![c] = "closed"]
  /\ channel' = [channel EXCEPT ![c] = <<>>]
  /\ lastFrame' = [lastFrame EXCEPT ![c] = "none"]
  /\ UNCHANGED <<commandMu, writer, spc, target, dpc>>

-----------------------------------------------------------------------------
Attach(c) == AttachLock(c) \/ AttachRoom(c)
SendCommand(p) ==
  \/ SendLock(p) \/ SendRefused(p) \/ SendNow(p) \/ SendBlock(p)
  \/ SendUnblocked(p) \/ SendTimeout(p)
DisconnectDevice(d) ==
  \/ DisconnectLock(d) \/ DrainTest(d) \/ DrainTake(d)
  \/ QueueNotice(d) \/ QueueNil(d)

Next ==
  \/ \E c \in Conns : Attach(c) \/ Receive(c) \/ Reply(c)
                        \/ ConnectionLost(c) \/ Detach(c)
  \/ \E p \in Callers : SendCommand(p)
  \/ \E d \in Disconnectors : DisconnectDevice(d)

Spec == Init /\ [][Next]_vars

\* A goroutine that can run runs; a handler does not ignore its channel for
\* ever, because select chooses at random among what is ready; a lock that is
\* free again and again is granted (sync.Mutex and sync.RWMutex do not starve
\* a waiter).  Nothing makes a device connect, answer or break.
Fairness ==
  /\ \A c \in Conns : SF_vars(AttachRoom(c) \/ Receive(c) \/ Detach(c))
  /\ \A p \in Callers :
       /\ SF_vars(SendLock(p))
       /\ WF_vars(SendRefused(p) \/ SendNow(p) \/ SendBlock(p)
                    \/ SendUnblocked(p) \/ SendTimeout(p))
  /\ \A d \in Disconnectors :
       /\ SF_vars(DisconnectLock(d))
       /\ WF_vars(DrainTest(d) \/ DrainTake(d) \/ QueueNotice(d) \/ QueueNil(d))

FairSpec == Spec /\ Fairness

-----------------------------------------------------------------------------
TypeOK ==
  /\ hpc \in [Conns -> {"closed", "attaching", "select", "replying", "leaving"}]
  /\ controls \in Conns \cup {NoConn}
  /\ channel \in [Conns -> Seq(Frames)]
  /\ \A c \in Conns : Len(channel[c]) <= Cap
  /\ commandMu \in Callers \cup {NoOne}
  /\ writer \in Disconnectors \cup {NoOne}
  /\ spc \in [Callers -> {"called", "locked", "blocked", "returned"}]
  /\ target \in [Callers \cup Disconnectors -> Conns \cup {NoConn}]
  /\ dpc \in [Disconnectors ->
               {"called", "drain", "take", "notice", "nil", "done", "refused"}]
  /\ lastFrame \in [Conns -> {"none", "command", "notice"}]

\* Goroutines that hold a channel of the room in a local variable.
Holders ==
  Readers \cup {d \in Disconnectors : dpc[d] \in {"drain", "take", "notice", "nil"}}

\* Whoever waits to send into, or drains, a channel works on the room's current
\* one: AttachDevice never replaces a channel under SendCommand or
\* disconnectDevice, so no accepted command goes to a dead handler's channel.
HeldChannelIsCurrent ==
  \A p \in Holders : target[p] = controls

\* One disconnect at most has addressed the handler.
OneDisconnect(c) ==
  \A d, e \in Disconnectors : target[d] = c /\ target[e] = c => d = e

\* The nil frame closes a handler only after it forwarded the unbind or kick
\* notice, and after the notice the device gets no further command
\* (disconnectDevice), as long as no second disconnect drains the first one's
\* frames.
NoticeThenEnd ==
  \A c \in Conns : OneDisconnect(c) =>
    /\ hpc[c] = "select" /\ hpc'[c] = "leaving" /\ channel'[c] # channel[c]
         => lastFrame[c] = "notice"
    /\ lastFrame[c] = "notice" => lastFrame'[c] \in {"notice", "none"}

NoticeIsLast == [][NoticeThenEnd]_vars

\* A disconnect waits in its drain loop for a frame that nobody can send, with
\* the lock of the room.
Stuck == \E d \in Disconnectors : dpc[d] = "take" /\ channel[target[d]] = <<>>

\* Once disconnectDevice queued its notice, the handler it addressed ends, unless
\* another one drained the frame behind it and is stuck.
DisconnectCloses ==
  \A d \in Disconnectors :
    dpc[d] = "nil" ~> (target[d] \in Conns => hpc[target[d]] = "closed") \/ Stuck

\* disconnectDevice returns.
DisconnectReturns ==
  \A d \in Disconnectors : <>(dpc[d] \in {"done", "refused"})

\* What p wants from SendCommand is over.
Answered(p) == IF p \in Conns THEN hpc[p] # "replying" ELSE spc[p] = "returned"

\* Every call of SendCommand returns, and a handler that answers its own device
\* gets back to its loop, however full its channel is, unless a disconnect is
\* stuck.
SendReturns == \A p \in Callers : ~Answered(p) ~> Answered(p) \/ Stuck

=============================================================================
